---- MODULE Spec2Model ----
(***************************************************************************)
(* Radar product manager of supercell-wx                                   *)
(* (scwx-qt/source/scwx/qt/manager/radar_product_manager.cpp).             *)
(*                                                                         *)
(* RefreshSpec: one ProviderManager, its refresh flag, its single-shot     *)
(* steady_timer, the handlers queued on the io_context and the refresh     *)
(* bodies posted to the worker pool by RefreshData.                        *)
(*                                                                         *)
(* LoadSpec: one RadarProductManager that is the registry's live entry for *)
(* its radar id, the LoadLevel2Data / LoadLevel3Data calls made on it, the *)
(* LoadNexradFile tasks they post, the two load mutexes and the record     *)
(* maps.                                                                   *)
(*                                                                         *)
(* FileSpec: the LoadFile / LoadData calls, their LoadNexradFile tasks     *)
(* under fileLoadMutex_, the record maps and the file index.               *)
(*                                                                         *)
(* CacheSpec: the threads inside the readers and writers of the record     *)
(* maps and the two record mutexes.                                        *)
(*                                                                         *)
(* RegistrySpec: Instance(), the weak entries of instanceMap_, the owners  *)
(* of the managers it hands out, and Cleanup().                            *)
(*                                                                         *)
(* InitializeSpec: the calls of Initialize() on one manager, its mutex and *)
(* the two coordinate grids.                                               *)
(*                                                                         *)
(* ProviderManagersSpec: the calls of GetLevel3ProviderManager on one      *)
(* manager and its map of Level-III provider managers.                     *)
(*                                                                         *)
(* Level3Spec: UpdateAvailableProducts and EnableRefresh(Level3, ..) on    *)
(* one manager and the tasks they post.                                    *)
(*                                                                         *)
(* SitesSpec: LoadLevel2Data calls on the managers of two radar sites and  *)
(* the loadLevel2DataMutex_ of each.                                       *)
(*                                                                         *)
(* ParseSpec: DigitalRadarData::Parse of one Message 31                    *)
(* (wxdata/source/scwx/wsr88d/rda/digital_radar_data.cpp).                 *)
(*                                                                         *)
(* TextSpec: the try-parse steps of the text product parser on one stream  *)
(* (wxdata/source/scwx/awips/text_product_message.cpp).                    *)
(***************************************************************************)
EXTENDS Integers, Sequences, FiniteSets, Bags, TLC

\* ------------------------------------------------------------------ bounds
\* Refresh bodies (util::async tasks of RefreshData) that exist at once.
MaxWorkers == 2
\* Timer waits that are armed or queued for invocation at once.
MaxHandlers == 2
\* LoadLevel2Data / LoadLevel3Data calls made on the manager.
MaxLoads == 2
\* Threads that read or write the record maps at once.
MaxThreads == 3
\* Threads that call Instance() and hold the manager it returns.
MaxCallers == 2
\* RadarProductManager objects constructed by Instance().
MaxManagers == 3
\* Threads that are inside an operation of the managers at once.
MaxLockers == 2
\* common::MAX_DATA_MOMENT_GATES, MAX_0_5_DEGREE_RADIALS and
\* MAX_1_DEGREE_RADIALS, scaled down.
MaxDataMomentGates == 3
Max0_5DegreeRadials == 2
Max1DegreeRadials == 1
\* EnableRefresh(Level3, product, enabled) tasks that exist at once.
MaxEnables == 2
\* Lines of a text product.
MaxLines == 3
\* LoadLevel2Data calls made on the managers of the radar sites.
MaxSiteLoads == 3

\* --------------------------------------------------------------- constants
\* kRetryInterval_, in seconds.
kRetryInterval == 15

\* ------------------------------------------------------------------ inputs
\* provider_->Refresh() returns (newObjects, totalObjects).
NewObjects == 0 .. 1
TotalObjects == 0 .. 1
\* provider_->update_period() and now() - provider_->last_modified(), seconds.
UpdatePeriods == {20, 60}
Elapsed == {30}

VARIABLES
  refreshEnabled,  \* ProviderManager::refreshEnabled_
  timerArmed,      \* refreshTimer_ has a pending async_wait
  timerInterval,   \* the expiry set by expires_after (0 when no wait pends)
  readyOk,         \* handlers queued on the io_context with success
  readyAborted,    \* handlers queued with operation_aborted
  worker,          \* the refresh bodies: a bag of the lambda's locals
  signal,          \* the signal emitted by the last step
  lastCalls,       \* the owner's last call (see Remember, Interleave)
  disabledSince,   \* Disable() was called and refresh not enabled since
  zeroDisabled     \* a body has disabled refresh because nothing was found

VARIABLES
  task,                      \* the LoadNexradFile tasks: call -> locals
  loadMutex,                 \* loadLevel2DataMutex_, loadLevel3DataMutex_
  level2ProductRecords,      \* level2ProductRecords_
  level3ProductRecordsMap,   \* level3ProductRecordsMap_
  level3ProviderManagerMap,  \* level3ProviderManagerMap_: product -> the
                             \* ProviderManager, numbered as constructed
  initialized,               \* initialized_
  fileIndex                  \* fileIndex_: filename -> record

refreshVars == <<refreshEnabled, timerArmed, timerInterval, readyOk,
                 readyAborted, worker, signal, lastCalls, disabledSince,
                 zeroDisabled>>

loadVars == <<task, loadMutex, level2ProductRecords, level3ProductRecordsMap,
              level3ProviderManagerMap, initialized, fileIndex>>

VARIABLES
  access,       \* thread -> the record-map access it is inside
  recordMutex   \* level2ProductRecordMutex_, level3ProductRecordMutex_

cacheVars == <<access, recordMutex>>

VARIABLES
  instanceMap,  \* instanceMap_: radar id -> weak pointer (a manager number)
  managers,     \* the managers constructed so far, in order of construction
  caller        \* caller of Instance() -> its locals and the pointer it holds

registryVars == <<instanceMap, managers, caller>>

VARIABLES
  initializeMutex,       \* initializeMutex_: the caller holding it, or 0
  initCall,              \* caller of Initialize() -> its position
  remaining,             \* work items of the running for_each not yet run
  coordinates0_5Degree,  \* coordinates0_5Degree_: index -> writes made to it
  coordinates1Degree     \* coordinates1Degree_

initializeVars == <<initializeMutex, initCall, remaining>>
gridVars == <<coordinates0_5Degree, coordinates1Degree>>

VARIABLES
  managerCall  \* thread -> its call of GetLevel3ProviderManager

VARIABLES
  level3ProductsInitialized,  \* level3ProductsInitialized_
  updateTask,             \* the tasks UpdateAvailableProducts posted: a bag
  requested,              \* RequestAvailableProducts calls of those tasks
  changed,                \* Level3ProductsChanged signals emitted
  availableCategoryMap,   \* availableCategoryMap_: the products in it
  enableTask              \* the tasks EnableRefresh(Level3, ..) posted: a bag

level3Vars == <<level3ProductsInitialized, updateTask, requested, changed,
                availableCategoryMap, enableTask>>

VARIABLES
  stream,   \* the std::istream given to Parse: size, position (both counted
            \* from isBegin) and failbit
  message,  \* what the stream holds, as the fields the decoder reads from it
  parse     \* DigitalRadarData::Parse: its position, locals and p's fields

parseVars == <<stream, message, parse>>

VARIABLES
  text,   \* the std::istream of the text product: its lines, the number of
          \* lines already extracted, eofbit and failbit
  tried   \* the step of the parser last run on it, the position it was
          \* entered at and what it found

textVars == <<text, tried>>

VARIABLES
  textProduct  \* TextProductMessage::Parse on the stream text: its
               \* position, the loop counter i, dataValid, p->mndHeader_
               \* and p->segments_

VARIABLES
  locker  \* the threads inside an operation: a bag of the locks each holds
          \* and the lock steps it has left

VARIABLES
  lookup  \* the last GetLevel3Data call: its arguments, the record found,
          \* what it read of the product's map and what it returned

VARIABLES
  lastEnables  \* the enabled arguments of the owner's last two calls of
               \* EnableRefresh(Level3, product, enabled)

VARIABLES
  siteLoad,          \* LoadLevel2Data call -> the site of its manager and
                     \* the position of its LoadNexradFile task
  loadLevel2DataMutex  \* site -> the call holding loadLevel2DataMutex_ of
                       \* the site's manager, or 0

siteVars == <<siteLoad, loadLevel2DataMutex>>

vars == <<refreshVars, loadVars, cacheVars, registryVars, initializeVars,
          gridVars, managerCall, level3Vars, parseVars, textVars, siteVars,
          textProduct, locker, lookup, lastEnables>>

\* The variables outside each part of the model.
outsideRefresh == <<loadVars, cacheVars, registryVars, initializeVars,
                    gridVars, managerCall, level3Vars, parseVars, textVars,
                    siteVars, textProduct, locker, lookup, lastEnables>>
outsideLoad == <<refreshVars, cacheVars, registryVars, initializeVars,
                 managerCall, level3Vars, parseVars, textVars, siteVars,
                 textProduct, locker, lookup, lastEnables>>
outsideCache == <<refreshVars, loadVars, registryVars, initializeVars,
                  gridVars, managerCall, level3Vars, parseVars, textVars,
                  siteVars, textProduct, locker, lookup, lastEnables>>
outsideRegistry == <<refreshVars, cacheVars, initializeVars, gridVars,
                     managerCall, level3Vars, parseVars, textVars, siteVars,
                     textProduct, locker, lookup, lastEnables>>
outsideInitialize == <<refreshVars, cacheVars, registryVars, managerCall,
                       level3Vars, parseVars, textVars, siteVars, textProduct,
                       locker, lookup, lastEnables>>
outsideProviderManagers == <<refreshVars, cacheVars, registryVars,
                             initializeVars, gridVars, fileIndex, level3Vars,
                             parseVars, textVars, siteVars, textProduct,
                             locker, lookup, lastEnables>>
outsideLevel3 == <<cacheVars, registryVars, initializeVars, gridVars,
                   managerCall, fileIndex, parseVars, textVars, siteVars,
                   textProduct, locker, lookup, lastEnables>>

Max(a, b) == IF a >= b THEN a ELSE b

\* The locals of a refresh body that util::async has posted and no pool thread
\* has started yet.
PostedWorker ==
  [pc |-> "posted", new |-> 0, total |-> 0, period |-> 0, elapsed |-> 0,
   interval |-> 0]

\* The refresh bodies at position pc of the lambda.
At(pc) == {b \in BagToSet(worker) : b.pc = pc}

\* The bag with body b moved on to c, or finished.
Step(b, c) == (worker (-) SetToBag({b})) (+) SetToBag({c})
Finish(b) == worker (-) SetToBag({b})

\* The number of refresh bodies a pool thread is running.
InFlight == BagCardinality(worker) - CopiesIn(PostedWorker, worker)

Pending == (IF timerArmed THEN 1 ELSE 0) + readyOk + readyAborted

\* lastCalls after a call of the owner: an enableFalse that comes right after an
\* enableTrue is recorded with it.
Remember(call) ==
  IF call = "enableFalse" /\ lastCalls = <<"enableTrue">>
    THEN <<"enableTrue", "enableFalse">>
    ELSE <<call>>

\* lastCalls after a step of the pool or the io_context: an enableTrue is no
\* longer the step just taken.
Interleave == IF lastCalls = <<"enableTrue">> THEN <<>> ELSE lastCalls

RefreshInit ==
  /\ refreshEnabled = FALSE
  /\ timerArmed = FALSE
  /\ timerInterval = 0
  /\ readyOk = 0
  /\ readyAborted = 0
  /\ worker = EmptyBag
  /\ signal = "none"
  /\ lastCalls = <<>>
  /\ disabledSince = FALSE
  /\ zeroDisabled = FALSE

\* refreshTimer_.cancel(): a pending wait completes with operation_aborted;
\* a wait whose handler is already queued is not affected.
CancelTimer ==
  /\ timerArmed' = FALSE
  /\ timerInterval' = 0
  /\ readyAborted' = IF timerArmed THEN readyAborted + 1 ELSE readyAborted

\* RefreshData: cancel the timer under refreshTimerMutex_, then post the body.
RefreshData ==
  /\ BagCardinality(worker) < MaxWorkers
  /\ worker' = worker (+) SetToBag({PostedWorker})
  /\ CancelTimer

\* EnableRefresh that leaves a provider alone once a refresh body has disabled
\* it for want of data.
EnableRefresh_StaysDisabled(enabled) ==
  /\ lastCalls' = Remember(IF enabled THEN "enableTrue" ELSE "enableFalse")
  /\ signal' = "none"
  /\ UNCHANGED <<readyOk, zeroDisabled>>
  /\ IF refreshEnabled # enabled /\ ~zeroDisabled
       THEN /\ refreshEnabled' = enabled
            /\ IF enabled
                 THEN /\ RefreshData
                      /\ disabledSince' = FALSE
                 ELSE UNCHANGED <<timerArmed, timerInterval, readyAborted,
                                  worker, disabledSince>>
       ELSE UNCHANGED <<refreshEnabled, timerArmed, timerInterval,
                        readyAborted, worker, disabledSince>>

\* EnableRefresh that assigns the flag and refreshes whatever the flag was.
EnableRefresh_Always(enabled) ==
  /\ lastCalls' = Remember(IF enabled THEN "enableTrue" ELSE "enableFalse")
  /\ signal' = "none"
  /\ UNCHANGED <<readyOk, zeroDisabled>>
  /\ refreshEnabled' = enabled
  /\ IF enabled
       THEN /\ RefreshData
            /\ disabledSince' = FALSE
       ELSE UNCHANGED <<timerArmed, timerInterval, readyAborted, worker,
                        disabledSince>>

\* RadarProductManagerImpl::EnableRefresh(providerManager, enabled)
EnableRefresh(enabled) ==
  /\ lastCalls' = Remember(IF enabled THEN "enableTrue" ELSE "enableFalse")
  /\ signal' = "none"
  /\ UNCHANGED <<readyOk, zeroDisabled>>
  /\ IF refreshEnabled # enabled
       THEN /\ refreshEnabled' = enabled
            /\ IF enabled
                 THEN /\ RefreshData
                      /\ disabledSince' = FALSE
                 ELSE UNCHANGED <<timerArmed, timerInterval, readyAborted,
                                  worker, disabledSince>>
       ELSE UNCHANGED <<refreshEnabled, timerArmed, timerInterval,
                        readyAborted, worker, disabledSince>>

\* ProviderManager::Disable()
Disable ==
  /\ refreshEnabled' = FALSE
  /\ CancelTimer
  /\ lastCalls' = Remember("disable")
  /\ disabledSince' = TRUE
  /\ signal' = "none"
  /\ UNCHANGED <<readyOk, worker, zeroDisabled>>

\* A pool thread starts the posted body and calls provider_->Refresh().
StartRefresh(b) ==
  /\ b.pc = "posted"
  /\ worker' = Step(b, [b EXCEPT !.pc = "refresh"])
  /\ lastCalls' = Interleave
  /\ signal' = "none"
  /\ UNCHANGED <<refreshEnabled, timerArmed, timerInterval, readyOk,
                 readyAborted, disabledSince, zeroDisabled>>

\* RefreshDone with the signal emitted for totalObjects > 0.
RefreshDone_EmitOnTotal(b, n, t, period, elapsed) ==
  /\ b.pc = "refresh"
  /\ worker' = Step(b,
       [pc |-> IF n = 0 /\ refreshEnabled /\ t = 0 THEN "disable" ELSE "check",
        new |-> n, total |-> t, period |-> period, elapsed |-> elapsed,
        interval |-> IF n > 0 THEN Max(period - elapsed, kRetryInterval)
                     ELSE kRetryInterval])
  /\ lastCalls' = Interleave
  /\ signal' = IF t > 0 THEN "NewDataAvailable" ELSE "none"
  /\ UNCHANGED <<refreshEnabled, timerArmed, timerInterval, readyOk,
                 readyAborted, disabledSince, zeroDisabled>>

\* RefreshDone with the interval not raised to kRetryInterval_.
RefreshDone_NoRetryFloor(b, n, t, period, elapsed) ==
  /\ b.pc = "refresh"
  /\ worker' = Step(b,
       [pc |-> IF n = 0 /\ refreshEnabled /\ t = 0 THEN "disable" ELSE "check",
        new |-> n, total |-> t, period |-> period, elapsed |-> elapsed,
        interval |-> IF n > 0 THEN period - elapsed ELSE kRetryInterval])
  /\ lastCalls' = Interleave
  /\ signal' = IF n > 0 THEN "NewDataAvailable" ELSE "none"
  /\ UNCHANGED <<refreshEnabled, timerArmed, timerInterval, readyOk,
                 readyAborted, disabledSince, zeroDisabled>>

\* Refresh() returns (n, t); the body takes the branch of lines 478-503 up to
\* the read of refreshEnabled_ in the else-if.
RefreshDone(b, n, t, period, elapsed) ==
  /\ b.pc = "refresh"
  /\ worker' = Step(b,
       [pc |-> IF n = 0 /\ refreshEnabled /\ t = 0 THEN "disable" ELSE "check",
        new |-> n, total |-> t, period |-> period, elapsed |-> elapsed,
        interval |-> IF n > 0 THEN Max(period - elapsed, kRetryInterval)
                     ELSE kRetryInterval])
  /\ lastCalls' = Interleave
  /\ signal' = IF n > 0 THEN "NewDataAvailable" ELSE "none"
  /\ UNCHANGED <<refreshEnabled, timerArmed, timerInterval, readyOk,
                 readyAborted, disabledSince, zeroDisabled>>

\* DisableNoData with the assignment to refreshEnabled_ left out.
DisableNoData_KeepsEnabled(b) ==
  /\ b.pc = "disable"
  /\ worker' = Step(b, [b EXCEPT !.pc = "check"])
  /\ zeroDisabled' = TRUE
  /\ lastCalls' = Interleave
  /\ signal' = "none"
  /\ UNCHANGED <<refreshEnabled, timerArmed, timerInterval, readyOk,
                 readyAborted, disabledSince>>

\* "No data found, disabling refresh": refreshEnabled_ = false.
DisableNoData(b) ==
  /\ b.pc = "disable"
  /\ refreshEnabled' = FALSE
  /\ worker' = Step(b, [b EXCEPT !.pc = "check"])
  /\ zeroDisabled' = TRUE
  /\ lastCalls' = Interleave
  /\ signal' = "none"
  /\ UNCHANGED <<timerArmed, timerInterval, readyOk, readyAborted, disabledSince>>

\* if (providerManager->refreshEnabled_), read without the timer mutex.
CheckEnabled(b) ==
  /\ b.pc = "check"
  /\ worker' = IF refreshEnabled THEN Step(b, [b EXCEPT !.pc = "arm"])
                ELSE Finish(b)
  /\ lastCalls' = Interleave
  /\ signal' = "none"
  /\ UNCHANGED <<refreshEnabled, timerArmed, timerInterval, readyOk,
                 readyAborted, disabledSince, zeroDisabled>>

\* Under refreshTimerMutex_: expires_after(interval), which cancels a pending
\* wait, then async_wait.
ArmTimer(b) ==
  /\ b.pc = "arm"
  /\ Pending < MaxHandlers
  /\ readyAborted' = IF timerArmed THEN readyAborted + 1 ELSE readyAborted
  /\ timerArmed' = TRUE
  /\ timerInterval' = b.interval
  /\ worker' = Finish(b)
  /\ lastCalls' = Interleave
  /\ signal' = "none"
  /\ UNCHANGED <<refreshEnabled, readyOk, disabledSince,
                 zeroDisabled>>

\* The timer expires: the wait's handler is queued with success.
TimerExpire ==
  /\ timerArmed
  /\ timerArmed' = FALSE
  /\ timerInterval' = 0
  /\ readyOk' = readyOk + 1
  /\ lastCalls' = Interleave
  /\ signal' = "none"
  /\ UNCHANGED <<refreshEnabled, readyAborted, worker, disabledSince, zeroDisabled>>

\* HandlerSuccess that also sets refreshEnabled_.
HandlerSuccess_Enables ==
  /\ readyOk > 0
  /\ readyOk' = readyOk - 1
  /\ RefreshData
  /\ refreshEnabled' = TRUE
  /\ lastCalls' = Interleave
  /\ signal' = "none"
  /\ UNCHANGED <<disabledSince, zeroDisabled>>

\* The handler only logging for success too.
HandlerSuccess_Logs ==
  /\ readyOk > 0
  /\ readyOk' = readyOk - 1
  /\ lastCalls' = Interleave
  /\ signal' = "none"
  /\ UNCHANGED <<refreshEnabled, timerArmed, timerInterval, readyAborted,
                 worker, disabledSince, zeroDisabled>>

\* The handler runs with e == success: RefreshData(providerManager).
HandlerSuccess ==
  /\ readyOk > 0
  /\ readyOk' = readyOk - 1
  /\ RefreshData
  /\ lastCalls' = Interleave
  /\ signal' = "none"
  /\ UNCHANGED <<refreshEnabled, disabledSince, zeroDisabled>>

\* The handler calling RefreshData for operation_aborted too.
HandlerAborted_Refreshes ==
  /\ readyAborted > 0
  /\ readyAborted' = readyAborted - 1
  /\ BagCardinality(worker) < MaxWorkers
  /\ worker' = worker (+) SetToBag({PostedWorker})
  /\ lastCalls' = Interleave
  /\ signal' = "none"
  /\ UNCHANGED <<refreshEnabled, timerArmed, timerInterval, readyOk,
                 disabledSince, zeroDisabled>>

\* The handler runs with e == operation_aborted: it only logs.
HandlerAborted ==
  /\ readyAborted > 0
  /\ readyAborted' = readyAborted - 1
  /\ lastCalls' = Interleave
  /\ signal' = "none"
  /\ UNCHANGED <<refreshEnabled, timerArmed, timerInterval, readyOk, worker,
                 disabledSince, zeroDisabled>>

CallEnableRefresh ==
  /\ \E enabled \in BOOLEAN : EnableRefresh(enabled)
  /\ UNCHANGED outsideRefresh
CallDisable == Disable /\ UNCHANGED outsideRefresh
PoolStart ==
  /\ \E b \in BagToSet(worker) : StartRefresh(b)
  /\ UNCHANGED outsideRefresh
PoolRefreshDone ==
  /\ \E b \in BagToSet(worker), n \in NewObjects, t \in TotalObjects,
        period \in UpdatePeriods, elapsed \in Elapsed :
       RefreshDone(b, n, t, period, elapsed)
  /\ UNCHANGED outsideRefresh
PoolDisableNoData ==
  /\ \E b \in BagToSet(worker) : DisableNoData(b)
  /\ UNCHANGED outsideRefresh
PoolCheckEnabled ==
  /\ \E b \in BagToSet(worker) : CheckEnabled(b)
  /\ UNCHANGED outsideRefresh
PoolArmTimer ==
  /\ \E b \in BagToSet(worker) : ArmTimer(b)
  /\ UNCHANGED outsideRefresh
IoTimerExpire == TimerExpire /\ UNCHANGED outsideRefresh
IoHandlerSuccess == HandlerSuccess /\ UNCHANGED outsideRefresh
IoHandlerAborted == HandlerAborted /\ UNCHANGED outsideRefresh

RefreshNext ==
  \/ CallEnableRefresh
  \/ CallDisable
  \/ PoolStart
  \/ PoolRefreshDone
  \/ PoolDisableNoData
  \/ PoolCheckEnabled
  \/ PoolArmTimer
  \/ IoTimerExpire
  \/ IoHandlerSuccess
  \/ IoHandlerAborted

\* The refresh with an owner who makes a call only while the bodies and the
\* waits it has set going are fewer than the model holds: no body and no
\* handler then waits for room.
Room == BagCardinality(worker) + Pending < MaxWorkers
          /\ BagCardinality(worker) + Pending < MaxHandlers

OwnerEnableRefresh == Room /\ CallEnableRefresh
OwnerDisable == Room /\ CallDisable

RefreshLiveNext ==
  \/ OwnerEnableRefresh
  \/ OwnerDisable
  \/ PoolStart
  \/ PoolRefreshDone
  \/ PoolDisableNoData
  \/ PoolCheckEnabled
  \/ PoolArmTimer
  \/ IoTimerExpire
  \/ IoHandlerSuccess
  \/ IoHandlerAborted

\* The pool threads run the bodies posted to them, provider_->Refresh()
\* returns, the timer expires and the io_context runs the handlers queued
\* on it.
RefreshFairness ==
  /\ WF_vars(PoolStart) /\ WF_vars(PoolRefreshDone)
  /\ WF_vars(PoolDisableNoData) /\ WF_vars(PoolCheckEnabled)
  /\ WF_vars(PoolArmTimer) /\ WF_vars(IoTimerExpire)
  /\ WF_vars(IoHandlerSuccess) /\ WF_vars(IoHandlerAborted)

\* -------------------------------------------------------------- Initialize

NUM_RADIAL_GATES_0_5_DEGREE == Max0_5DegreeRadials * MaxDataMomentGates
NUM_RADIAL_GATES_1_DEGREE == Max1DegreeRadials * MaxDataMomentGates

\* boost::irange<uint32_t>(0, n)
RadialGates(n) == 0 .. (n - 1)

\* std::vector::resize(2 * n): elements kept, new elements without a write.
Resize(coordinates, n) ==
  [k \in 0 .. (2 * n - 1) |->
     IF k \in DOMAIN coordinates THEN coordinates[k] ELSE <<>>]

\* The work item writing at radialGate and radialGate + 1.
Calculate_Packed(coordinates, radialGate) ==
  [coordinates EXCEPT ![radialGate] = Append(@, radialGate),
                      ![radialGate + 1] = Append(@, radialGate)]

\* One work item of the for_each: coordinates[offset] = latitude and
\* coordinates[offset + 1] = longitude with offset = radialGate * 2; each
\* element records the work items that wrote it.
Calculate(coordinates, radialGate) ==
  [coordinates EXCEPT ![radialGate * 2] = Append(@, radialGate),
                      ![radialGate * 2 + 1] = Append(@, radialGate)]

\* A grid of n work items after the for_each over it has completed once.
Calculated(n) == [k \in 0 .. (2 * n - 1) |-> <<k \div 2>>]

InitializeInit ==
  /\ initializeMutex = 0
  /\ initCall = [c \in 1 .. MaxCallers |-> "idle"]
  /\ remaining = {}
  /\ coordinates0_5Degree = <<>>
  /\ coordinates1Degree = <<>>

\* A thread calls Initialize() and waits for initializeMutex_.
InitializeCall(c) ==
  /\ initCall[c] \in {"idle", "returned"}
  /\ initCall' = [initCall EXCEPT ![c] = "waiting"]
  /\ UNCHANGED <<initializeMutex, remaining, initialized, gridVars>>

\* Initialize(): std::unique_lock lock {p->initializeMutex_}
InitializeLock(c) ==
  /\ initCall[c] = "waiting"
  /\ initializeMutex = 0
  /\ initializeMutex' = c
  /\ initCall' = [initCall EXCEPT ![c] = "locked"]
  /\ UNCHANGED <<remaining, initialized, gridVars>>

\* Initialize() computing the grids whatever initialized_ is.
InitializeCheck_Always(c) ==
  /\ initCall[c] = "locked"
  /\ initCall' = [initCall EXCEPT ![c] = "half"]
  /\ coordinates0_5Degree' =
       Resize(coordinates0_5Degree, NUM_RADIAL_GATES_0_5_DEGREE)
  /\ remaining' = RadialGates(NUM_RADIAL_GATES_0_5_DEGREE)
  /\ UNCHANGED <<initializeMutex, initialized, coordinates1Degree>>

\* Initialize(): if (p->initialized_) return; otherwise resize the half
\* degree grid and start its for_each.
InitializeCheck(c) ==
  /\ initCall[c] = "locked"
  /\ IF initialized
       THEN /\ initCall' = [initCall EXCEPT ![c] = "returned"]
            /\ initializeMutex' = 0
            /\ UNCHANGED <<remaining, initialized, gridVars>>
       ELSE /\ initCall' = [initCall EXCEPT ![c] = "half"]
            /\ coordinates0_5Degree' =
                 Resize(coordinates0_5Degree, NUM_RADIAL_GATES_0_5_DEGREE)
            /\ remaining' = RadialGates(NUM_RADIAL_GATES_0_5_DEGREE)
            /\ UNCHANGED <<initializeMutex, initialized, coordinates1Degree>>

\* One work item of the for_each over radialGates0_5Degree.
CalculateHalfDegree(c, radialGate) ==
  /\ initCall[c] = "half"
  /\ radialGate \in remaining
  /\ remaining' = remaining \ {radialGate}
  /\ coordinates0_5Degree' = Calculate(coordinates0_5Degree, radialGate)
  /\ UNCHANGED <<initializeMutex, initCall, initialized, coordinates1Degree>>

\* The first for_each has returned: resize the one degree grid and start
\* its for_each.
ResizeOneDegree(c) ==
  /\ initCall[c] = "half"
  /\ remaining = {}
  /\ remaining' = RadialGates(NUM_RADIAL_GATES_1_DEGREE)
  /\ initCall' = [initCall EXCEPT ![c] = "one"]
  /\ coordinates1Degree' =
       Resize(coordinates1Degree, NUM_RADIAL_GATES_1_DEGREE)
  /\ UNCHANGED <<initializeMutex, initialized, coordinates0_5Degree>>

\* One work item of the for_each over radialGates1Degree.
CalculateOneDegree(c, radialGate) ==
  /\ initCall[c] = "one"
  /\ radialGate \in remaining
  /\ remaining' = remaining \ {radialGate}
  /\ coordinates1Degree' = Calculate(coordinates1Degree, radialGate)
  /\ UNCHANGED <<initializeMutex, initCall, initialized,
                 coordinates0_5Degree>>

\* The second for_each has returned: p->initialized_ = true, and the lock
\* goes out of scope.
InitializeDone(c) ==
  /\ initCall[c] = "one"
  /\ remaining = {}
  /\ initialized' = TRUE
  /\ initializeMutex' = 0
  /\ initCall' = [initCall EXCEPT ![c] = "returned"]
  /\ UNCHANGED <<remaining, gridVars>>

\* ------------------------------------------------------------------- loads

\* Ticks of the time_points in one second: times below are in ticks.
TicksPerSecond == 2

\* Start times of the objects the remote store holds for each provider.
ObjectTimes == {2, 3}
\* The times callers ask for.
RequestTimes == {1, 2, 4}
\* Level-III products.
Products == {"N0B", "N0Q"}

Loads == 1 .. MaxLoads
NoFile == -1
NoRecord == [by |-> 0, time |-> NoFile]

\* The record's time used as the key without the cast to seconds.
TimeInSeconds_Exact(t) == t

\* std::chrono::time_point_cast<std::chrono::seconds>(time)
TimeInSeconds(t) == (t \div TicksPerSecond) * TicksPerSecond

\* provider_->FindKey(time): the object with the greatest start time <= time,
\* NoFile for the empty key.
FindKey(t) ==
  IF \E o \in ObjectTimes : o <= t
    THEN CHOOSE o \in ObjectTimes :
           o <= t /\ \A q \in ObjectTimes : q <= t => q <= o
    ELSE NoFile

\* via: the call that posted the task ("provider" for LoadProviderData,
\* "file" for LoadFile, "data" for LoadData); request: request != nullptr.
IdleTask ==
  [pc |-> "idle", via |-> "none", group |-> "none", product |-> "",
   time |-> 0, filename |-> "", request |-> TRUE, file |-> NoFile,
   record |-> NoRecord, called |-> FALSE, with |-> {}]

\* The calls whose task is posted and has not completed its request.
Running == {i \in Loads : task[i].pc \notin {"idle", "done", "dropped"}}

\* The tasks inside the section of LoadNexradFile that holds the load mutex.
Decoding == {i \in Loads : task[i].pc \in {"locked", "loaded", "stored"}}

EmptyMap == [k \in {} |-> NoRecord]

\* recordMap of the task: level2ProductRecords_ or the product's map.
RecordMap(i) ==
  IF task[i].group = "Level2" THEN level2ProductRecords
  ELSE IF task[i].product \in DOMAIN level3ProductRecordsMap
         THEN level3ProductRecordsMap[task[i].product]
         ELSE EmptyMap

\* The mutex argument of LoadNexradFile: the manager's load mutex of the
\* group for LoadProviderData, fileLoadMutex_ for LoadFile and LoadData.
Mutex(i) == IF task[i].via = "provider" THEN task[i].group ELSE "File"


LoadInit ==
  /\ task = [i \in Loads |-> IdleTask]
  /\ loadMutex = [g \in {"Level2", "Level3", "File"} |-> 0]
  /\ level2ProductRecords = EmptyMap
  /\ level3ProductRecordsMap = [p \in {} |-> EmptyMap]
  /\ level3ProviderManagerMap = [p \in {} |-> 0]
  /\ initialized = FALSE
  /\ fileIndex = EmptyMap

\* The next call is made with the first unused request.
NextCall(i) ==
  /\ task[i].pc = "idle"
  /\ \A j \in Loads : j < i => task[j].pc # "idle"

\* RadarProductManagerImpl::GetLevel3ProviderManager(product)
\* GetLevel3ProviderManager constructing a ProviderManager on every call.
GetLevel3ProviderManager_Emplace(product) ==
  /\ level3ProviderManagerMap' =
       (product :> Cardinality(DOMAIN level3ProviderManagerMap) + 1)
         @@ level3ProviderManagerMap
  /\ UNCHANGED <<task, loadMutex, level2ProductRecords,
                 level3ProductRecordsMap, initialized>>

\* RadarProductManagerImpl::GetLevel3ProviderManager(product), under the
\* unique lock of level3ProviderManagerMutex_
GetLevel3ProviderManager(product) ==
  /\ level3ProviderManagerMap' =
       IF product \in DOMAIN level3ProviderManagerMap
         THEN level3ProviderManagerMap
         ELSE (product :> Cardinality(DOMAIN level3ProviderManagerMap) + 1)
                @@ level3ProviderManagerMap
  /\ UNCHANGED <<task, loadMutex, level2ProductRecords,
                 level3ProductRecordsMap, initialized>>

\* RadarProductManager::LoadLevel2Data(time, request): LoadProviderData posts
\* the LoadNexradFile task.
LoadLevel2Data(i, time) ==
  /\ NextCall(i)
  /\ task' = [task EXCEPT ![i] =
       [IdleTask EXCEPT !.pc = "posted", !.via = "provider",
                        !.group = "Level2", !.time = time,
                        !.with = Running]]
  /\ UNCHANGED <<loadMutex, level2ProductRecords, level3ProductRecordsMap,
                 level3ProviderManagerMap, initialized>>

\* RadarProductManager::LoadLevel3Data(product, time, request)
LoadLevel3Data(i, product, time) ==
  /\ NextCall(i)
  /\ IF product \notin DOMAIN level3ProviderManagerMap
       THEN /\ task' = [task EXCEPT ![i] =
                 [IdleTask EXCEPT !.pc = "dropped", !.via = "provider",
                                  !.group = "Level3",
                                  !.product = product, !.time = time]]
            /\ UNCHANGED level3ProductRecordsMap
       ELSE /\ task' = [task EXCEPT ![i] =
                 [IdleTask EXCEPT !.pc = "posted", !.via = "provider",
                                  !.group = "Level3",
                                  !.product = product, !.time = time,
                                  !.with = Running]]
            /\ level3ProductRecordsMap' =
                 IF product \in DOMAIN level3ProductRecordsMap
                   THEN level3ProductRecordsMap
                   ELSE level3ProductRecordsMap @@ (product :> EmptyMap)
  /\ UNCHANGED <<loadMutex, level2ProductRecords, level3ProviderManagerMap,
                 initialized>>

\* LoadNexradFile task with the mutex taken whether or not it is held.
AcquireLoadMutex_NoWait(i) ==
  /\ task[i].pc = "posted"
  /\ loadMutex' = [loadMutex EXCEPT ![Mutex(i)] = i]
  /\ task' = [task EXCEPT ![i].pc = "locked"]
  /\ UNCHANGED <<level2ProductRecords, level3ProductRecordsMap,
                 level3ProviderManagerMap, initialized>>

\* LoadNexradFile task: std::unique_lock lock {mutex}
AcquireLoadMutex(i) ==
  /\ task[i].pc = "posted"
  /\ loadMutex[Mutex(i)] = 0
  /\ loadMutex' = [loadMutex EXCEPT ![Mutex(i)] = i]
  /\ task' = [task EXCEPT ![i].pc = "locked"]
  /\ UNCHANGED <<level2ProductRecords, level3ProductRecordsMap,
                 level3ProviderManagerMap, initialized>>

\* load() of LoadProviderData: recordMap.find(time) under the shared lock;
\* on a miss FindKey(time) and LoadObjectByKey(key), which returns the object
\* (ok) or nullptr.
LoadProviderData(i, ok) ==
  /\ task[i].pc = "locked"
  /\ task[i].via = "provider"
  /\ IF task[i].time \in DOMAIN RecordMap(i)
       THEN task' = [task EXCEPT ![i].pc = "loaded",
                                 ![i].file = RecordMap(i)[task[i].time].time]
       ELSE task' = [task EXCEPT ![i].pc = "loaded",
                                 ![i].called = TRUE,
                                 ![i].file = IF ok THEN FindKey(task[i].time)
                                             ELSE NoFile]
  /\ UNCHANGED <<loadMutex, level2ProductRecords, level3ProductRecordsMap,
                 level3ProviderManagerMap, initialized>>

\* StoreRadarProductRecord returning the record it was given in every case.
StoredRecord_Own(i, record) == record

\* StoreRadarProductRecord(record) for the record task i created: the record
\* stored under the record's time in seconds, and the maps afterwards.
StoredRecord(i, record) ==
  LET key == TimeInSeconds(record.time)
  IN IF key \in DOMAIN RecordMap(i) THEN RecordMap(i)[key] ELSE record

\* StoreRadarProductRecord assigning map[key] = record in every case.
StoreRadarProductRecord_Overwrite(i, record) ==
  LET key == TimeInSeconds(record.time)
      map == (key :> record) @@ RecordMap(i)
  IN IF task[i].group = "Level2"
       THEN /\ level2ProductRecords' = map
            /\ UNCHANGED level3ProductRecordsMap
       ELSE /\ level3ProductRecordsMap' =
                 (task[i].product :> map) @@ level3ProductRecordsMap
            /\ UNCHANGED level2ProductRecords

StoreRadarProductRecord(i, record) ==
  LET key == TimeInSeconds(record.time)
      map == IF key \in DOMAIN RecordMap(i) THEN RecordMap(i)
             ELSE RecordMap(i) @@ (key :> record)
  IN IF task[i].group = "Level2"
       THEN /\ level2ProductRecords' = map
            /\ UNCHANGED level3ProductRecordsMap
       ELSE /\ level3ProductRecordsMap' =
                 (task[i].product :> map) @@ level3ProductRecordsMap
            /\ UNCHANGED level2ProductRecords

\* LoadNexradFile task, lines 705-718: for a valid file create the record,
\* Instance(radar_id)->Initialize() and StoreRadarProductRecord.
StoreLoaded(i) ==
  /\ task[i].pc = "loaded"
  /\ IF task[i].file # NoFile
       THEN LET record == [by |-> i, time |-> task[i].file]
            IN /\ initialized' = TRUE
               /\ coordinates0_5Degree' =
                    IF initialized THEN coordinates0_5Degree
                    ELSE Calculated(NUM_RADIAL_GATES_0_5_DEGREE)
               /\ coordinates1Degree' =
                    IF initialized THEN coordinates1Degree
                    ELSE Calculated(NUM_RADIAL_GATES_1_DEGREE)
               /\ StoreRadarProductRecord(i, record)
               /\ task' = [task EXCEPT ![i].pc = "stored",
                                       ![i].record = StoredRecord(i, record)]
       ELSE /\ task' = [task EXCEPT ![i].pc = "stored"]
            /\ UNCHANGED <<level2ProductRecords, level3ProductRecordsMap,
                           initialized, gridVars>>
  /\ UNCHANGED <<loadMutex, level3ProviderManagerMap>>

\* LoadNexradFile task: lock.unlock()
ReleaseLoadMutex(i) ==
  /\ task[i].pc = "stored"
  /\ loadMutex' = [loadMutex EXCEPT ![Mutex(i)] = 0]
  /\ task' = [task EXCEPT ![i].pc = "unlocked"]
  /\ UNCHANGED <<level2ProductRecords, level3ProductRecordsMap,
                 level3ProviderManagerMap, initialized>>

\* LoadNexradFile task: set_radar_product_record, emit RequestComplete; the
\* slot LoadFile connected to the request runs in the emit.
RequestComplete(i) ==
  /\ task[i].pc = "unlocked"
  /\ task' = [task EXCEPT ![i].pc = "done"]
  /\ fileIndex' =
       IF task[i].via = "file" /\ task[i].request /\ task[i].record # NoRecord
         THEN (task[i].filename :> task[i].record) @@ fileIndex
         ELSE fileIndex
  /\ UNCHANGED <<loadMutex, level2ProductRecords, level3ProductRecordsMap,
                 level3ProviderManagerMap, initialized>>

\* The names LoadFile is called with.
Filenames == {"a", "b"}
\* The times of the files NexradFileFactory::Create decodes, in ticks: two
\* in one second and one half a second later in the next second.
FileTimes == {2, 3, 4}
\* What NexradFileFactory::Create returns: a file of a group (and product)
\* with a time, or nullptr.
InvalidFile == [group |-> "none", product |-> "", time |-> NoFile]
NexradFiles ==
  [group : {"Level2"}, product : {""}, time : FileTimes]
    \cup [group : {"Level3"}, product : Products, time : {3}]
    \cup {InvalidFile}

\* RadarProductManager::LoadFile with the file index not consulted.
LoadFile_NoIndex(i, filename, hasRequest) ==
  /\ NextCall(i)
  /\ task' = [task EXCEPT ![i] =
       [IdleTask EXCEPT !.pc = "posted", !.via = "file",
                        !.filename = filename, !.request = hasRequest]]
  /\ UNCHANGED <<loadMutex, level2ProductRecords, level3ProductRecordsMap,
                 level3ProviderManagerMap, initialized, fileIndex>>

\* RadarProductManager::LoadFile(filename, request)
LoadFile(i, filename, hasRequest) ==
  /\ NextCall(i)
  /\ IF filename \in DOMAIN fileIndex
       THEN task' = [task EXCEPT ![i] =
              [IdleTask EXCEPT !.pc = "done", !.via = "file",
                               !.filename = filename, !.request = hasRequest,
                               !.record = IF hasRequest
                                            THEN fileIndex[filename]
                                            ELSE NoRecord]]
       ELSE task' = [task EXCEPT ![i] =
              [IdleTask EXCEPT !.pc = "posted", !.via = "file",
                               !.filename = filename, !.request = hasRequest]]
  /\ UNCHANGED <<loadMutex, level2ProductRecords, level3ProductRecordsMap,
                 level3ProviderManagerMap, initialized, fileIndex>>

\* RadarProductManager::LoadData(is, request), request != nullptr
LoadData(i) ==
  /\ NextCall(i)
  /\ task' = [task EXCEPT ![i] =
       [IdleTask EXCEPT !.pc = "posted", !.via = "data"]]
  /\ UNCHANGED <<loadMutex, level2ProductRecords, level3ProductRecordsMap,
                 level3ProviderManagerMap, initialized, fileIndex>>

\* load() of LoadFile and LoadData: NexradFileFactory::Create
CreateNexradFile(i, f) ==
  /\ task[i].pc = "locked"
  /\ task[i].via \in {"file", "data"}
  /\ task' = [task EXCEPT ![i].pc = "loaded", ![i].group = f.group,
                          ![i].product = f.product, ![i].file = f.time]
  /\ UNCHANGED <<loadMutex, level2ProductRecords, level3ProductRecordsMap,
                 level3ProviderManagerMap, initialized, fileIndex>>

CallGetLevel3ProviderManager ==
  /\ \E product \in Products : GetLevel3ProviderManager(product)
  /\ UNCHANGED <<outsideLoad, fileIndex, gridVars>>
CallLoadLevel2Data ==
  /\ \E i \in Loads, time \in RequestTimes : LoadLevel2Data(i, time)
  /\ UNCHANGED <<outsideLoad, fileIndex, gridVars>>
CallLoadLevel3Data ==
  /\ \E i \in Loads, product \in Products, time \in RequestTimes :
       LoadLevel3Data(i, product, time)
  /\ UNCHANGED <<outsideLoad, fileIndex, gridVars>>
PoolAcquireLoadMutex ==
  /\ \E i \in Loads : AcquireLoadMutex(i)
  /\ UNCHANGED <<outsideLoad, fileIndex, gridVars>>
PoolLoadProviderData ==
  /\ \E i \in Loads, ok \in BOOLEAN : LoadProviderData(i, ok)
  /\ UNCHANGED <<outsideLoad, fileIndex, gridVars>>
PoolStoreLoaded ==
  /\ \E i \in Loads : StoreLoaded(i)
  /\ UNCHANGED <<outsideLoad, fileIndex>>
PoolReleaseLoadMutex ==
  /\ \E i \in Loads : ReleaseLoadMutex(i)
  /\ UNCHANGED <<outsideLoad, fileIndex, gridVars>>
PoolRequestComplete ==
  /\ \E i \in Loads : RequestComplete(i)
  /\ UNCHANGED <<outsideLoad, gridVars>>

CallLoadFile ==
  /\ \E i \in Loads, filename \in Filenames, hasRequest \in BOOLEAN :
       LoadFile(i, filename, hasRequest)
  /\ UNCHANGED <<outsideLoad, gridVars>>
CallLoadData ==
  /\ \E i \in Loads : LoadData(i)
  /\ UNCHANGED <<outsideLoad, gridVars>>
PoolCreateNexradFile ==
  /\ \E i \in Loads, f \in NexradFiles : CreateNexradFile(i, f)
  /\ UNCHANGED <<outsideLoad, gridVars>>

LoadNext ==
  \/ CallGetLevel3ProviderManager
  \/ CallLoadLevel2Data
  \/ CallLoadLevel3Data
  \/ PoolAcquireLoadMutex
  \/ PoolLoadProviderData
  \/ PoolStoreLoaded
  \/ PoolReleaseLoadMutex
  \/ PoolRequestComplete

\* ------------------------------------------------------ record-map locks

Threads == 1 .. MaxThreads
RecordMaps == {"Level2", "Level3"}

IdleAccess == [op |-> "idle", map |-> "none", lock |-> "none"]

CacheInit ==
  /\ access = [t \in Threads |-> IdleAccess]
  /\ recordMutex = [m \in RecordMaps |-> [writer |-> 0, readers |-> {}]]

\* std::unique_lock lock {mutex} on a std::shared_mutex
LockUnique(t, m) ==
  /\ recordMutex[m].writer = 0
  /\ recordMutex[m].readers = {}
  /\ recordMutex' = [recordMutex EXCEPT ![m].writer = t]

\* std::shared_lock lock {mutex}
LockShared(t, m) ==
  /\ recordMutex[m].writer = 0
  /\ recordMutex' = [recordMutex EXCEPT ![m].readers = @ \cup {t}]

\* The destructor of the lock thread t holds, if any.
Unlock(t) ==
  recordMutex' =
    [m \in RecordMaps |->
       [writer |-> IF recordMutex[m].writer = t THEN 0
                   ELSE recordMutex[m].writer,
        readers |-> recordMutex[m].readers \ {t}]]

Enter(t, op, m, lock) ==
  /\ access[t] = IdleAccess
  /\ access' = [access EXCEPT ![t] = [op |-> op, map |-> m, lock |-> lock]]

\* RadarProductManagerImpl::GetLevel2ProductRecord(time): the map is read
\* with no lock taken.
GetLevel2ProductRecord(t) ==
  /\ Enter(t, "GetLevel2ProductRecord", "Level2", "none")
  /\ UNCHANGED recordMutex

\* RadarProductManagerImpl::GetLevel3ProductRecord(product, time)
GetLevel3ProductRecord(t) ==
  /\ Enter(t, "GetLevel3ProductRecord", "Level3", "unique")
  /\ LockUnique(t, "Level3")

\* load() of LoadProviderData: recordMap.find(time)
FindRecord(t, m) ==
  /\ Enter(t, "LoadProviderData", m, "shared")
  /\ LockShared(t, m)

\* LoadLevel3Data: level3ProductRecordsMap_[product] under the unique lock
CreateRecordMap(t) ==
  /\ Enter(t, "LoadLevel3Data", "Level3", "unique")
  /\ LockUnique(t, "Level3")

\* StoreRadarProductRecord: find and insert under the unique lock
StoreRecord(t, m) ==
  /\ Enter(t, "StoreRadarProductRecord", m, "unique")
  /\ LockUnique(t, m)

\* The access ends and its lock, if it took one, goes out of scope.
Leave(t) ==
  /\ access[t] # IdleAccess
  /\ access' = [access EXCEPT ![t] = IdleAccess]
  /\ Unlock(t)

ThreadGetLevel2ProductRecord ==
  /\ \E t \in Threads : GetLevel2ProductRecord(t)
  /\ UNCHANGED outsideCache
ThreadGetLevel3ProductRecord ==
  /\ \E t \in Threads : GetLevel3ProductRecord(t)
  /\ UNCHANGED outsideCache
ThreadFindRecord ==
  /\ \E t \in Threads, m \in RecordMaps : FindRecord(t, m)
  /\ UNCHANGED outsideCache
ThreadCreateRecordMap ==
  /\ \E t \in Threads : CreateRecordMap(t)
  /\ UNCHANGED outsideCache
ThreadStoreRecord ==
  /\ \E t \in Threads, m \in RecordMaps : StoreRecord(t, m)
  /\ UNCHANGED outsideCache
ThreadLeave ==
  /\ \E t \in Threads : Leave(t)
  /\ UNCHANGED outsideCache

CacheNext ==
  \/ ThreadGetLevel2ProductRecord
  \/ ThreadGetLevel3ProductRecord
  \/ ThreadFindRecord
  \/ ThreadCreateRecordMap
  \/ ThreadStoreRecord
  \/ ThreadLeave

\* ---------------------------------------------------------------- registry

Callers == 1 .. MaxCallers
RadarIds == {"KLSX", "KTLX"}

IdleCaller ==
  [pc |-> "idle", radarSite |-> "", instance |-> 0, instanceCreated |-> FALSE]

RegistryInit ==
  /\ instanceMap = [r \in {} |-> 0]
  /\ managers = <<>>
  /\ caller = [c \in Callers |-> IdleCaller]

\* it->second.lock(): the manager of the entry when it still has an owner,
\* 0 (nullptr) when there is no entry or the manager was destroyed.
LockWeak(radarSite) ==
  IF radarSite \in DOMAIN instanceMap
       /\ managers[instanceMap[radarSite]].owners > 0
    THEN instanceMap[radarSite]
    ELSE 0

\* Instance(radarSite), the block under instanceMutex_.
InstanceGuarded(c, radarSite) ==
  /\ caller[c].pc = "idle"
  /\ LET found == LockWeak(radarSite)
         new == Len(managers) + 1
     IN IF found # 0
          THEN /\ managers' = [managers EXCEPT ![found].owners = @ + 1]
               /\ caller' = [caller EXCEPT ![c] =
                    [pc |-> "unguarded", radarSite |-> radarSite,
                     instance |-> found, instanceCreated |-> FALSE]]
               /\ UNCHANGED instanceMap
          ELSE /\ new <= MaxManagers
               /\ managers' = Append(managers,
                    [radarSite |-> radarSite, owners |-> 1, created |-> 0])
               /\ instanceMap' = (radarSite :> new) @@ instanceMap
               /\ caller' = [caller EXCEPT ![c] =
                    [pc |-> "unguarded", radarSite |-> radarSite,
                     instance |-> new, instanceCreated |-> TRUE]]
  /\ UNCHANGED fileIndex

\* Instance(radarSite) emitting RadarProductManagerCreated on every return.
InstanceReturn_EmitAlways(c) ==
  /\ caller[c].pc = "unguarded"
  /\ managers' = [managers EXCEPT ![caller[c].instance].created = @ + 1]
  /\ caller' = [caller EXCEPT ![c].pc = "holding"]
  /\ UNCHANGED <<instanceMap, fileIndex>>

\* Instance(radarSite) after the guarded block: emit
\* RadarProductManagerCreated(radarSite) if the instance was created, and
\* return the pointer.
InstanceReturn(c) ==
  /\ caller[c].pc = "unguarded"
  /\ managers' =
       IF caller[c].instanceCreated
         THEN [managers EXCEPT ![caller[c].instance].created = @ + 1]
         ELSE managers
  /\ caller' = [caller EXCEPT ![c].pc = "holding"]
  /\ UNCHANGED <<instanceMap, fileIndex>>

\* The caller drops the shared pointer Instance() returned; the manager is
\* destroyed with its last owner.
Release(c) ==
  /\ caller[c].pc = "holding"
  /\ managers' = [managers EXCEPT ![caller[c].instance].owners = @ - 1]
  /\ caller' = [caller EXCEPT ![c] = IdleCaller]
  /\ UNCHANGED <<instanceMap, fileIndex>>

\* RadarProductManager::Cleanup(): fileIndex_.clear() and instanceMap_.clear(),
\* each under its own mutex; no other step uses both.
Cleanup ==
  /\ fileIndex' = EmptyMap
  /\ instanceMap' = [r \in {} |-> 0]
  /\ UNCHANGED <<managers, caller>>

CallInstance ==
  /\ \E c \in Callers, radarSite \in RadarIds : InstanceGuarded(c, radarSite)
  /\ UNCHANGED <<outsideRegistry, task, loadMutex, level2ProductRecords,
                 level3ProductRecordsMap, level3ProviderManagerMap,
                 initialized>>
CallInstanceReturn ==
  /\ \E c \in Callers : InstanceReturn(c)
  /\ UNCHANGED <<outsideRegistry, task, loadMutex, level2ProductRecords,
                 level3ProductRecordsMap, level3ProviderManagerMap,
                 initialized>>
CallRelease ==
  /\ \E c \in Callers : Release(c)
  /\ UNCHANGED <<outsideRegistry, task, loadMutex, level2ProductRecords,
                 level3ProductRecordsMap, level3ProviderManagerMap,
                 initialized>>
CallCleanup ==
  /\ Cleanup
  /\ UNCHANGED <<outsideRegistry, task, loadMutex, level2ProductRecords,
                 level3ProductRecordsMap, level3ProviderManagerMap,
                 initialized>>

RegistryNext ==
  \/ CallInstance
  \/ CallInstanceReturn
  \/ CallRelease
  \/ CallCleanup

CallInitialize ==
  /\ \E c \in Callers : InitializeCall(c)
  /\ UNCHANGED <<outsideInitialize, task, loadMutex, level2ProductRecords,
                 level3ProductRecordsMap, level3ProviderManagerMap, fileIndex>>
CallInitializeLock ==
  /\ \E c \in Callers : InitializeLock(c)
  /\ UNCHANGED <<outsideInitialize, task, loadMutex, level2ProductRecords,
                 level3ProductRecordsMap, level3ProviderManagerMap, fileIndex>>
CallInitializeCheck ==
  /\ \E c \in Callers : InitializeCheck(c)
  /\ UNCHANGED <<outsideInitialize, task, loadMutex, level2ProductRecords,
                 level3ProductRecordsMap, level3ProviderManagerMap, fileIndex>>
ParCalculateHalfDegree ==
  /\ \E c \in Callers, radialGate \in RadialGates(NUM_RADIAL_GATES_0_5_DEGREE) :
       CalculateHalfDegree(c, radialGate)
  /\ UNCHANGED <<outsideInitialize, task, loadMutex, level2ProductRecords,
                 level3ProductRecordsMap, level3ProviderManagerMap, fileIndex>>
CallResizeOneDegree ==
  /\ \E c \in Callers : ResizeOneDegree(c)
  /\ UNCHANGED <<outsideInitialize, task, loadMutex, level2ProductRecords,
                 level3ProductRecordsMap, level3ProviderManagerMap, fileIndex>>
ParCalculateOneDegree ==
  /\ \E c \in Callers, radialGate \in RadialGates(NUM_RADIAL_GATES_1_DEGREE) :
       CalculateOneDegree(c, radialGate)
  /\ UNCHANGED <<outsideInitialize, task, loadMutex, level2ProductRecords,
                 level3ProductRecordsMap, level3ProviderManagerMap, fileIndex>>
CallInitializeDone ==
  /\ \E c \in Callers : InitializeDone(c)
  /\ UNCHANGED <<outsideInitialize, task, loadMutex, level2ProductRecords,
                 level3ProductRecordsMap, level3ProviderManagerMap, fileIndex>>

InitializeNext ==
  \/ CallInitialize
  \/ CallInitializeLock
  \/ CallInitializeCheck
  \/ ParCalculateHalfDegree
  \/ CallResizeOneDegree
  \/ ParCalculateOneDegree
  \/ CallInitializeDone

\* ------------------------------------------- Level-III provider managers

IdleManagerCall == [pc |-> "idle", product |-> "", providerManager |-> 0]

ProviderManagersInit == managerCall = [t \in Threads |-> IdleManagerCall]

\* A thread calls GetLevel3ProviderManager(product) and waits for the unique
\* lock of level3ProviderManagerMutex_.
EnterGetLevel3ProviderManager(t, product) ==
  /\ managerCall[t].pc \in {"idle", "returned"}
  /\ managerCall' = [managerCall EXCEPT ![t] =
       [pc |-> "waiting", product |-> product, providerManager |-> 0]]
  /\ UNCHANGED <<task, loadMutex, level2ProductRecords,
                 level3ProductRecordsMap, level3ProviderManagerMap,
                 initialized>>

\* The call runs under the lock and returns
\* level3ProviderManagerMap_.at(product).
ReturnGetLevel3ProviderManager(t) ==
  /\ managerCall[t].pc = "waiting"
  /\ GetLevel3ProviderManager(managerCall[t].product)
  /\ managerCall' = [managerCall EXCEPT ![t] =
       [pc |-> "returned", product |-> managerCall[t].product,
        providerManager |->
          level3ProviderManagerMap'[managerCall[t].product]]]

ThreadEnterGetLevel3ProviderManager ==
  /\ \E t \in Threads, product \in Products :
       EnterGetLevel3ProviderManager(t, product)
  /\ UNCHANGED outsideProviderManagers
ThreadReturnGetLevel3ProviderManager ==
  /\ \E t \in Threads : ReturnGetLevel3ProviderManager(t)
  /\ UNCHANGED outsideProviderManagers

ProviderManagersNext ==
  \/ ThreadEnterGetLevel3ProviderManager
  \/ ThreadReturnGetLevel3ProviderManager

\* ------------------------------------------------- Level-III products

\* kDefaultLevel3Product_
kDefaultLevel3Product == "N0B"
\* The product EnableRefresh(Level3, product, enabled) is called with; the
\* ProviderManager of the refresh part is this product's.
EnableProduct == "N0Q"

\* What GetAvailableProducts() returns after RequestAvailableProducts().
AvailableLists == SUBSET Products

\* The manager's state of the load part other than the provider managers.
loadState == <<task, loadMutex, level2ProductRecords, level3ProductRecordsMap,
               initialized>>

Level3Init ==
  /\ level3ProductsInitialized = FALSE
  /\ updateTask = EmptyBag
  /\ requested = 0
  /\ changed = 0
  /\ availableCategoryMap = {}
  /\ enableTask = EmptyBag

PostedUpdate == [pc |-> "posted", ok |-> FALSE, list |-> {}]

\* UpdateAvailableProducts posting its task on every call.
UpdateAvailableProducts_EveryCall ==
  /\ level3ProductsInitialized' = TRUE
  /\ updateTask' = updateTask (+) SetToBag({PostedUpdate})
  /\ UNCHANGED <<requested, changed, availableCategoryMap, enableTask,
                 level3ProviderManagerMap, loadState, refreshVars>>

\* RadarProductManager::UpdateAvailableProducts(), all of it under
\* level3ProductsInitializeMutex_
UpdateAvailableProducts ==
  /\ IF level3ProductsInitialized
       THEN UNCHANGED <<level3ProductsInitialized, updateTask>>
       ELSE /\ level3ProductsInitialized' = TRUE
            /\ updateTask' = updateTask (+) SetToBag({PostedUpdate})
  /\ UNCHANGED <<requested, changed, availableCategoryMap, enableTask,
                 level3ProviderManagerMap, loadState, refreshVars>>

\* The task: GetLevel3ProviderManager(kDefaultLevel3Product_),
\* RequestAvailableProducts() and GetAvailableProducts(). The request
\* succeeds (ok) and the provider then lists the products of list, or fails
\* and the provider lists none.
RequestAvailableProducts(u, ok, list) ==
  /\ u.pc = "posted"
  /\ GetLevel3ProviderManager(kDefaultLevel3Product)
  /\ requested' = requested + 1
  /\ updateTask' = (updateTask (-) SetToBag({u}))
       (+) SetToBag({[pc |-> "requested", ok |-> ok,
                      list |-> IF ok THEN list ELSE {}]})
  /\ UNCHANGED <<level3ProductsInitialized, changed, availableCategoryMap,
                 enableTask, refreshVars>>

\* The task under availableCategoryMutex_: the categories are rebuilt from
\* the list and Level3ProductsChanged is emitted.
PublishAvailableProducts(u) ==
  /\ u.pc = "requested"
  /\ availableCategoryMap' = u.list
  /\ changed' = changed + 1
  /\ updateTask' = updateTask (-) SetToBag({u})
  /\ UNCHANGED <<level3ProductsInitialized, requested, enableTask,
                 level3ProviderManagerMap, loadState, refreshVars>>

\* RadarProductManager::EnableRefresh(Level3, product, enabled): the call
\* gets the provider manager and posts the task.
EnableRefreshLevel3(enabled) ==
  /\ BagCardinality(enableTask) < MaxEnables
  /\ GetLevel3ProviderManager(EnableProduct)
  /\ enableTask' = enableTask
       (+) SetToBag({[pc |-> "posted", enabled |-> enabled, list |-> {}]})
  /\ UNCHANGED <<level3ProductsInitialized, updateTask, requested, changed,
                 availableCategoryMap, refreshVars>>

\* The task enabling whether or not the product is in the list.
FindAvailable_Ungated(e, list) ==
  /\ e.pc = "posted"
  /\ enableTask' = (enableTask (-) SetToBag({e}))
       (+) SetToBag({[e EXCEPT !.pc = "enable", !.list = list]})
  /\ UNCHANGED <<level3ProductsInitialized, updateTask, requested, changed,
                 availableCategoryMap, level3ProviderManagerMap, loadState,
                 refreshVars>>

\* The task: RequestAvailableProducts(), GetAvailableProducts() and the
\* std::find of the product in the list.
FindAvailable(e, list) ==
  /\ e.pc = "posted"
  /\ enableTask' =
       IF EnableProduct \in list
         THEN (enableTask (-) SetToBag({e}))
                (+) SetToBag({[e EXCEPT !.pc = "enable", !.list = list]})
         ELSE enableTask (-) SetToBag({e})
  /\ UNCHANGED <<level3ProductsInitialized, updateTask, requested, changed,
                 availableCategoryMap, level3ProviderManagerMap, loadState,
                 refreshVars>>

\* The task: p->EnableRefresh(providerManager, enabled)
EnableAvailable(e) ==
  /\ e.pc = "enable"
  /\ EnableRefresh(e.enabled)
  /\ enableTask' = enableTask (-) SetToBag({e})
  /\ UNCHANGED <<level3ProductsInitialized, updateTask, requested, changed,
                 availableCategoryMap, level3ProviderManagerMap, loadState>>

CallUpdateAvailableProducts ==
  /\ UpdateAvailableProducts
  /\ UNCHANGED outsideLevel3
PoolRequestAvailableProducts ==
  /\ \E u \in BagToSet(updateTask), ok \in BOOLEAN, list \in AvailableLists :
       RequestAvailableProducts(u, ok, list)
  /\ UNCHANGED outsideLevel3
PoolPublishAvailableProducts ==
  /\ \E u \in BagToSet(updateTask) : PublishAvailableProducts(u)
  /\ UNCHANGED outsideLevel3
CallEnableRefreshLevel3 ==
  /\ \E enabled \in BOOLEAN : EnableRefreshLevel3(enabled)
  /\ UNCHANGED outsideLevel3
PoolFindAvailable ==
  /\ \E e \in BagToSet(enableTask), list \in AvailableLists :
       FindAvailable(e, list)
  /\ UNCHANGED outsideLevel3
PoolEnableAvailable ==
  /\ \E e \in BagToSet(enableTask) : EnableAvailable(e)
  /\ UNCHANGED outsideLevel3

Level3Next ==
  \/ CallUpdateAvailableProducts
  \/ PoolRequestAvailableProducts
  \/ PoolPublishAvailableProducts
  \/ CallEnableRefreshLevel3
  \/ PoolFindAvailable
  \/ PoolEnableAvailable

\* ------------------------------------------ Digital Radar Data (Message 31)
\* wxdata/source/scwx/wsr88d/rda/digital_radar_data.cpp
\* The bounds of dataBlockCount_ and of numberOfDataMomentGates_.
MinDataBlocks == 4
MaxDataBlocks == 10
MaxMomentGates == 1840

\* The inputs: the declared size of the message, the length of the stream
\* holding it (both in bytes from isBegin), and the fields of the message.
MessageSizes == {4000}
StreamSizes == {4000, 8000}
DataBlockCounts == {0, 3, 4, 10, 11}
CompressionIndicators == {0, 1}
FirstPointer == 72
PointerValues == {FirstPointer, 3000, 4000, 9000}
MomentNames == {"REF", "VEL", "SW ", "ZDR", "PHI", "RHO", "CFP"}
DataNames == {"VOL", "ELV", "RAD", "REF", "CFP", "XXX"}
MomentGates == {0, 2, 1840, 1841}
DataWordSizes == {8, 16, 32}

\* The data blocks of a message: one at FirstPointer, one wherever else a
\* pointer leads.
DataBlocks ==
  {[dataName |-> n, numberOfDataMomentGates |-> 0, dataWordSize |-> 0] :
     n \in DataNames \ MomentNames}
  \cup [dataName : DataNames \cap MomentNames,
        numberOfDataMomentGates : MomentGates, dataWordSize : DataWordSizes]

\* The block away from FirstPointer: one of each kind, a moment without gates.
OtherBlocks ==
  {d \in DataBlocks : /\ d.numberOfDataMomentGates = 0
                      /\ d.dataWordSize \in {0, 8}}

\* The pointer arrays: all blocks at FirstPointer but one.
DataBlockPointers(n) ==
  {[b \in 1 .. n |-> IF b = k THEN q ELSE FirstPointer] :
     k \in 1 .. n, q \in PointerValues}

Messages ==
  UNION {[messageSize : MessageSizes, dataBlockCount : {n},
          compressionIndicator : CompressionIndicators,
          dataBlockPointer : DataBlockPointers(n), dataBlock : DataBlocks,
          otherBlock : OtherBlocks] :
           n \in DataBlockCounts \cap (MinDataBlocks .. MaxDataBlocks)}
  \cup [messageSize : MessageSizes,
        dataBlockCount : DataBlockCounts \ (MinDataBlocks .. MaxDataBlocks),
        compressionIndicator : CompressionIndicators,
        dataBlockPointer : {<<>>},
        dataBlock : {CHOOSE d \in DataBlocks : d.dataName = "XXX"},
        otherBlock : {CHOOSE d \in OtherBlocks : d.dataName = "XXX"}]

\* The block of message m that stands at isBegin + pointer.
DataBlockAt(m, pointer) ==
  IF pointer = FirstPointer THEN m.dataBlock ELSE m.otherBlock

\* The keys of strToDataBlock_.
strToDataBlock == {"VOL", "ELV", "RAD"} \cup MomentNames

\* is.read(.., n): the bytes that are there are extracted; fewer than n set
\* the failbit, and a stream with the failbit set extracts nothing.
Read(s, n) ==
  IF s.fail THEN s
  ELSE IF s.pos + n <= s.size THEN [s EXCEPT !.pos = @ + n]
  ELSE [s EXCEPT !.pos = s.size, !.fail = TRUE]

\* is.seekg(isBegin + off, beg): a position past the end sets the failbit.
Seekg(s, off) ==
  IF s.fail THEN s
  ELSE IF off <= s.size THEN [s EXCEPT !.pos = off]
  ELSE [s EXCEPT !.fail = TRUE]

\* The DigitalRadarDataImpl constructor and a stream not yet given.
IdleParse ==
  [pc |-> "idle", dataBlockCount |-> 0, compressionIndicator |-> 0,
   dataBlockPointer |-> <<>>, pointerBytes |-> 0, b |-> 0,
   messageValid |-> TRUE, blocks |-> <<>>, slots |-> {}]

ParseInit ==
  /\ stream = [size |-> 0, pos |-> 0, fail |-> FALSE]
  /\ message = CHOOSE m \in Messages : m.dataBlockCount = 0
                                       /\ m.compressionIndicator = 0
  /\ parse = IdleParse

\* The gate bytes read as one byte a gate whatever the word size.
MomentGateBytes_Narrow(numberOfDataMomentGates, dataWordSize) ==
  IF numberOfDataMomentGates >= 0 /\ numberOfDataMomentGates <= MaxMomentGates
    THEN IF dataWordSize \in {8, 16} THEN numberOfDataMomentGates ELSE 0
    ELSE 0

\* MomentDataBlock::Create: the size of the read of the gates
MomentGateBytes(numberOfDataMomentGates, dataWordSize) ==
  IF numberOfDataMomentGates >= 0 /\ numberOfDataMomentGates <= MaxMomentGates
    THEN IF dataWordSize = 8 THEN numberOfDataMomentGates
         ELSE IF dataWordSize = 16 THEN numberOfDataMomentGates * 2
         ELSE 0
    ELSE 0

\* MomentDataBlock::Create on a stream that stands behind the block's type
\* and name. A field whose read fails keeps the constructor's 0.
MomentDataBlockCreate(s, d) ==
  LET s1 == Seekg(s, s.pos + 4)
      s2 == Read(s1, 2)
      s3 == Read(s2, 2 + 2 + 2 + 2 + 1)
      s4 == Read(s3, 1)
      s5 == Read(s4, 4 + 4)
      gates == IF s2.fail THEN 0 ELSE d.numberOfDataMomentGates
      size == IF s4.fail THEN 0 ELSE d.dataWordSize
      bytes == MomentGateBytes(gates, size)
      s6 == Read(s5, bytes)
  IN  [stream |-> s6, headerEnd |-> s5.pos, numberOfDataMomentGates |-> gates,
       dataWordSize |-> size, gateBytes |-> bytes]

\* VolumeDataBlock::Create, ElevationDataBlock::Create and
\* RadialDataBlock::Create: the fixed fields behind the type and name.
FixedDataBlockCreate(s, dataName) ==
  LET s1 == Read(s, CASE dataName = "VOL" -> 40
                      [] dataName = "ELV" -> 8
                      [] dataName = "RAD" -> 24)
  IN  [stream |-> s1, headerEnd |-> s1.pos, numberOfDataMomentGates |-> 0,
       dataWordSize |-> 0, gateBytes |-> 0]

\* DigitalRadarData::Create(header, is): a new message whose header declares
\* m.messageSize bytes, at the front of a stream of size bytes. Every message
\* gets a DigitalRadarData of its own, which parses once.
CreateDigitalRadarData(m, size) ==
  /\ parse.pc = "idle"
  /\ size >= m.messageSize
  /\ message' = m
  /\ stream' = [size |-> size, pos |-> 0, fail |-> FALSE]
  /\ parse' = [IdleParse EXCEPT !.pc = "header"]

\* dataBlockCount_ cleared where the message is refused.
CheckedDataBlockCount_Kept(count, compressionIndicator) == count

\* Parse: dataBlockCount_ after the two checks
CheckedDataBlockCount(count, compressionIndicator) ==
  IF count < MinDataBlocks \/ count > MaxDataBlocks \/ compressionIndicator # 0
    THEN 0
    ELSE count

\* Parse: the 32 bytes before the pointers and the two checks.
ParseHeader ==
  /\ parse.pc = "header"
  /\ LET s == Read(stream, 4 + 4 + 2 + 2 + 4 + 1 + 1 + 2 + 1 + 1 + 1 + 1 + 4
                             + 1 + 1 + 2)
         count == IF s.fail THEN 0 ELSE message.dataBlockCount
         compression == IF s.fail THEN 0 ELSE message.compressionIndicator
     IN  /\ stream' = s
         /\ parse' = [parse EXCEPT
              !.pc = "pointers",
              !.compressionIndicator = compression,
              !.dataBlockCount = CheckedDataBlockCount(count, compression),
              !.messageValid =
                 ~(count < MinDataBlocks \/ count > MaxDataBlocks)
                 /\ compression = 0]
  /\ UNCHANGED message

\* Parse: the read of dataBlockCount_ pointers.
ReadDataBlockPointers ==
  /\ parse.pc = "pointers"
  /\ LET n == parse.dataBlockCount
         s == Read(stream, n * 4)
     IN  /\ stream' = s
         /\ parse' = [parse EXCEPT
              !.pc = "blocks",
              !.pointerBytes = n * 4,
              !.dataBlockPointer =
                 [b \in 1 .. n |->
                    IF s.fail \/ b \notin DOMAIN message.dataBlockPointer
                      THEN 0 ELSE message.dataBlockPointer[b]]]
  /\ UNCHANGED message

\* A slot assigned for every name read, known or not.
Populated_Unknown(slots, dataName) == slots \cup {dataName}

\* Parse: the switch over strToDataBlock_.at(dataName). The slot of a known
\* name takes the block Create returns; the default branch logs.
Populated(slots, dataName) ==
  IF dataName \in strToDataBlock THEN slots \cup {dataName} ELSE slots

\* Parse: one turn of the loop over the data blocks. The block is sought at
\* isBegin + dataBlockPointer_[b], its type and name are read and the Create
\* of its kind reads the rest.
ParseDataBlock ==
  /\ parse.pc = "blocks"
  /\ parse.b < parse.dataBlockCount
  /\ LET pointer == parse.dataBlockPointer[parse.b + 1]
         s1 == Seekg(stream, pointer)
         s2 == Read(s1, 1 + 3)
         block == DataBlockAt(message, pointer)
         dataName == IF s2.fail THEN "" ELSE block.dataName
         r == IF dataName \in MomentNames
                THEN MomentDataBlockCreate(s2, block)
              ELSE IF dataName \in {"VOL", "ELV", "RAD"}
                THEN FixedDataBlockCreate(s2, dataName)
              ELSE [stream |-> s2, headerEnd |-> s2.pos,
                    numberOfDataMomentGates |-> 0, dataWordSize |-> 0,
                    gateBytes |-> 0]
     IN  /\ stream' = r.stream
         /\ parse' = [parse EXCEPT
              !.b = @ + 1,
              !.slots = Populated(@, dataName),
              !.blocks = Append(@,
                 [pointer |-> pointer, sought |-> ~s1.fail,
                  dataName |-> dataName,
                  from |-> s1.pos, headerEnd |-> r.headerEnd,
                  to |-> r.stream.pos, failed |-> r.stream.fail,
                  numberOfDataMomentGates |-> r.numberOfDataMomentGates,
                  dataWordSize |-> r.dataWordSize,
                  gateBytes |-> r.gateBytes])]
  /\ UNCHANGED message

\* Parse: behind the loop, is.seekg(isBegin) and ValidateMessage(is,
\* bytesRead), which answers valid.
ValidateMessage(valid) ==
  /\ parse.pc = "blocks"
  /\ parse.b = parse.dataBlockCount
  /\ stream' = Seekg(stream, 0)
  /\ parse' = [parse EXCEPT !.pc = "done",
                            !.messageValid = @ /\ valid]
  /\ UNCHANGED message

outsideParse == <<refreshVars, loadVars, cacheVars, registryVars,
                  initializeVars, gridVars, managerCall, level3Vars,
                  textVars, siteVars, textProduct, locker, lookup,
                  lastEnables>>

CallCreateDigitalRadarData ==
  /\ parse.pc = "idle"
  /\ \E m \in Messages, size \in StreamSizes : CreateDigitalRadarData(m, size)
  /\ UNCHANGED outsideParse
CallParseHeader ==
  /\ ParseHeader
  /\ UNCHANGED outsideParse
CallReadDataBlockPointers ==
  /\ ReadDataBlockPointers
  /\ UNCHANGED outsideParse
CallParseDataBlock ==
  /\ ParseDataBlock
  /\ UNCHANGED outsideParse
CallValidateMessage ==
  /\ \E valid \in BOOLEAN : ValidateMessage(valid)
  /\ UNCHANGED outsideParse

ParseNext ==
  \/ CallCreateDigitalRadarData
  \/ CallParseHeader
  \/ CallReadDataBlockPointers
  \/ CallParseDataBlock
  \/ CallValidateMessage

\* ------------------------------------------------------ text product parser
\* wxdata/source/scwx/awips/text_product_message.cpp
\* A line of a product is the sequence of its characters without the
\* terminator; "ETX" is the ETX character.
Upper == {"A", "B", "C", "D", "E", "F", "G", "H", "I", "J", "K", "L", "M",
          "N", "O", "P", "Q", "R", "S", "T", "U", "V", "W", "X", "Y", "Z"}
Digit == {"0", "1", "2", "3", "4", "5", "6", "7", "8", "9"}

\* line[from .. from + n - 1] exists and is made of the characters of set
Run(line, from, n, set) ==
  /\ Len(line) >= from + n - 1
  /\ \A k \in from .. from + n - 1 : line[k] \in set

\* line continues with the characters of word at position from
Word(line, from, word) ==
  /\ Len(line) >= from + Len(word) - 1
  /\ \A k \in 1 .. Len(word) : line[from + k - 1] = word[k]

\* std::regex_search(line, reDateTimeString): ^[0-9]{3,4} ([AP]M|UTC)
reDateTimeString(line) ==
  \E n \in {3, 4} :
    /\ Run(line, 1, n, Digit)
    /\ Word(line, n + 1, <<" ">>)
    /\ \/ Run(line, n + 2, 1, {"A", "P"}) /\ Word(line, n + 3, <<"M">>)
       \/ Word(line, n + 2, <<"U", "T", "C">>)

\* std::regex_search(line, reUgcString): ^[A-Z]{2}[CZ]([0-9]{3})?[->]
reUgcString(line) ==
  /\ Run(line, 1, 2, Upper)
  /\ Run(line, 3, 1, {"C", "Z"})
  /\ \/ Run(line, 4, 1, {"-", ">"})
     \/ Run(line, 4, 3, Digit) /\ Run(line, 7, 1, {"-", ">"})

\* std::regex_search(line, rePVtecString): ^/[OTEX]\.
rePVtecString(line) ==
  /\ Word(line, 1, <<"/">>)
  /\ Run(line, 2, 1, {"O", "T", "E", "X"})
  /\ Word(line, 3, <<".">>)

\* std::regex_search(line, reHVtecString): ^/[A-Z0-9]{5}\.
reHVtecString(line) ==
  /\ Word(line, 1, <<"/">>)
  /\ Run(line, 2, 5, Upper \cup Digit)
  /\ Word(line, 7, <<".">>)

\* What the parser makes of a line: a UGC string, a P-VTEC string, an H-VTEC
\* string, an issuance date/time line, a line that starts with "$$", any
\* other text, a blank line (a line that starts with CR) or the ETX
\* character. No line matches two of the expressions.
Kind(line) ==
  CASE line = <<>> -> "blank"
    [] Word(line, 1, <<"ETX">>) -> "etx"
    [] reUgcString(line) -> "ugc"
    [] rePVtecString(line) -> "pvtec"
    [] reHVtecString(line) -> "hvtec"
    [] reDateTimeString(line) -> "datetime"
    [] Word(line, 1, <<"$", "$">>) -> "end"
    [] OTHER -> "words"

\* The product of scenario S3, and the same with a UGC string of the form
\* SSFNNN- in the place of KSTL-.
S3 ==
  << <<"<", "W", "M", "O", ">">>,
     <<"K", "S", "T", "L", "-">>,
     <<"/", "O", ".", "N", "E", "W", ".", "K", "S", "T", "L", ".", "S",
      "V", ".", "W", ".", "0", "0", "0", "1", ".", "2", "5", "0",
      "1", "0", "1", "T", "0", "0", "0", "0", "Z", "-", "2", "5",
      "0", "1", "0", "1", "T", "0", "1", "0", "0", "Z", "/">>,
     <<"1", "2", "0", "0", " ", "P", "M", " ", "C", "S", "T", " ", "M",
      "O", "N", " ", "J", "A", "N", " ", "0", "1", " ", "2", "0",
      "2", "5">>,
     <<"B", "O", "D", "Y">>,
     <<"$", "$">>,
     <<"ETX">> >>

S3Ugc == [S3 EXCEPT ![2] = <<"M", "O", "Z", "0", "0", "1", "-">>]

\* The stream is a sequence of lines, each with its terminator, named by
\* their Kind.
LineKinds == {"ugc", "pvtec", "hvtec", "datetime", "end", "words", "blank"}

RECURSIVE SeqsUpTo(_, _)
SeqsUpTo(S, n) ==
  IF n = 0 THEN {<<>>}
  ELSE LET shorter == SeqsUpTo(S, n - 1)
       IN  shorter \cup {Append(q, x) : q \in shorter, x \in S}

\* The products: up to MaxLines lines, and the same followed by ETX.
Texts == SeqsUpTo(LineKinds, MaxLines)
TextsWithEtx == {Append(q, "etx") : q \in SeqsUpTo(LineKinds, MaxLines - 1)}

Good(s) == ~s.eof /\ ~s.fail

\* is.peek(): the next character, or EOF with eofbit at the end of the data;
\* on a stream that is not good, EOF and failbit.
Peek(s) ==
  IF ~Good(s) THEN [s |-> [s EXCEPT !.fail = TRUE], c |-> "EOF"]
  ELSE IF s.pos = Len(s.lines)
    THEN [s |-> [s EXCEPT !.eof = TRUE], c |-> "EOF"]
  ELSE [s |-> s,
        c |-> CASE s.lines[s.pos + 1] = "blank" -> "CR"
                [] s.lines[s.pos + 1] = "etx" -> "ETX"
                [] OTHER -> "other"]

\* is.get() of the character peek() has just shown.
Get(s) == [s EXCEPT !.pos = @ + 1]

\* is.tellg(): -1 and failbit on a stream that is not good.
Tellg(s) ==
  IF ~Good(s) THEN [s |-> [s EXCEPT !.fail = TRUE], p |-> -1]
  ELSE [s |-> s, p |-> s.pos]

\* is.seekg(p, beg): eofbit is cleared first; with failbit set the stream
\* is left where it is.
SeekgBeg(s, p) ==
  LET c == [s EXCEPT !.eof = FALSE]
  IN  IF c.fail \/ p < 0 THEN [c EXCEPT !.fail = TRUE]
      ELSE [c EXCEPT !.pos = p]

\* util::getline(is, line): the next line. At the end of the data the line
\* is empty and eofbit is set. s.strict tells whether this getline, like
\* the input functions of the standard library, also sets failbit when it
\* extracts nothing or is called on a stream that is not good.
Getline(s) ==
  IF ~Good(s)
    THEN [s |-> [s EXCEPT !.eof = TRUE, !.fail = @ \/ s.strict],
          line |-> "blank"]
  ELSE IF s.pos = Len(s.lines)
    THEN [s |-> [s EXCEPT !.eof = TRUE, !.fail = s.strict], line |-> "blank"]
  ELSE [s |-> [s EXCEPT !.pos = @ + 1], line |-> s.lines[s.pos + 1]]

RECURSIVE SkipBlankLines(_)
SkipBlankLines(s) ==
  LET p == Peek(s)
  IN  IF p.c = "CR" THEN SkipBlankLines(Getline(p.s).s) ELSE p.s

\* TryParseEndOfProduct: the two tests of is.peek() against ETX and EOF
EndOfStream(s) ==
  LET p1 == Peek(s)
      p2 == Peek(p1.s)
  IN  IF p1.c = "ETX" THEN [s |-> Get(p1.s), endOfStream |-> TRUE]
      ELSE [s |-> p2.s, endOfStream |-> p2.c = "EOF"]

TryParseEndOfProduct(s) ==
  LET isBegin == Tellg(s)
      e1 == EndOfStream(isBegin.s)
      e2 == EndOfStream(SkipBlankLines(Getline(e1.s).s))
  IN  IF e1.endOfStream THEN [s |-> e1.s, found |-> TRUE, hVtec |-> FALSE]
      ELSE IF e2.endOfStream THEN [s |-> e2.s, found |-> TRUE, hVtec |-> FALSE]
      ELSE [s |-> SeekgBeg(e2.s, isBegin.p), found |-> FALSE,
            hVtec |-> FALSE]

\* TryParseMndHeader: the loop reading lines up to a blank one
RECURSIVE MndLines(_, _)
MndLines(s, mndHeader) ==
  IF s.eof THEN [s |-> s, mndHeader |-> mndHeader]
  ELSE LET p == Peek(s)
           g == Getline(p.s)
       IN  IF p.c # "CR" THEN MndLines(g.s, Append(mndHeader, g.line))
           ELSE [s |-> p.s, mndHeader |-> mndHeader]

TryParseMndHeader(s) ==
  LET isBegin == Tellg(s)
      r == MndLines(isBegin.s, <<>>)
      found == r.mndHeader # <<>>
               /\ r.mndHeader[Len(r.mndHeader)] = "datetime"
  IN  [s |-> IF found THEN r.s ELSE SeekgBeg(r.s, isBegin.p),
       found |-> found, hVtec |-> FALSE,
       mndHeader |-> IF found THEN r.mndHeader ELSE <<>>]

TryParseVtecString(s) ==
  LET isBegin == Tellg(s)
      g1 == Getline(isBegin.s)
      isBegin2 == Tellg(g1.s)
      g2 == Getline(isBegin2.s)
  IN  IF g1.line = "pvtec"
        THEN IF g2.line = "hvtec"
               THEN [s |-> g2.s, found |-> TRUE, hVtec |-> TRUE]
               ELSE [s |-> SeekgBeg(g2.s, isBegin2.p), found |-> TRUE,
                     hVtec |-> FALSE]
        ELSE [s |-> SeekgBeg(g1.s, isBegin.p), found |-> FALSE,
              hVtec |-> FALSE]

\* TryParseSegmentHeader: the loop over the VTEC strings
RECURSIVE VtecStrings(_, _)
VtecStrings(s, vtecString) ==
  LET v == TryParseVtecString(s)
  IN  IF v.found THEN VtecStrings(v.s, Append(vtecString, v.hVtec))
      ELSE [s |-> v.s, vtecString |-> vtecString]

\* TryParseSegmentHeader: the loop over the UGC names up to the issuance
\* date/time line
RECURSIVE UgcNames(_, _)
UgcNames(s, ugcNames) ==
  IF s.eof THEN [s |-> s, ugcNames |-> ugcNames, issuanceDateTime |-> FALSE]
  ELSE LET p == Peek(s)
           g == Getline(p.s)
       IN  IF p.c = "CR"
             THEN [s |-> p.s, ugcNames |-> ugcNames,
                   issuanceDateTime |-> FALSE]
           ELSE IF g.line = "datetime"
             THEN [s |-> g.s, ugcNames |-> ugcNames,
                   issuanceDateTime |-> TRUE]
           ELSE UgcNames(g.s, Append(ugcNames, g.line))

TryParseSegmentHeader(s) ==
  LET isBegin == Tellg(s)
      g == Getline(isBegin.s)
      v == VtecStrings(g.s, <<>>)
      n == UgcNames(v.s, <<>>)
  IN  IF g.line = "ugc"
        THEN [s |-> n.s, found |-> TRUE, hVtec |-> FALSE,
              vtecString |-> v.vtecString, ugcNames |-> n.ugcNames,
              issuanceDateTime |-> n.issuanceDateTime]
        ELSE [s |-> SeekgBeg(g.s, isBegin.p), found |-> FALSE,
              hVtec |-> FALSE]

TextInit ==
  /\ text = [lines |-> <<>>, pos |-> 0, eof |-> FALSE, fail |-> FALSE,
             strict |-> FALSE]
  /\ tried = [step |-> "none", entry |-> 0, found |-> FALSE, hVtec |-> FALSE]

\* A product arrives in a stream; the parser stands behind its first pos
\* lines, which held the WMO header.
OpenText(lines, pos, strict) ==
  /\ tried.step = "none"
  /\ pos <= Len(lines)
  /\ text' = [lines |-> lines, pos |-> pos, eof |-> FALSE, fail |-> FALSE,
              strict |-> strict]
  /\ tried' = [tried EXCEPT !.step = "open", !.entry = pos]

\* One step of TextProductMessage::Parse on the stream as the steps before
\* it left it.
Try(step, r) ==
  /\ tried.step # "none"
  /\ text' = r.s
  /\ tried' = [step |-> step, entry |-> text.pos, found |-> r.found,
               hVtec |-> r.hVtec]

\* The steps that read lines with no test for ETX before are given the
\* products without one.
NoEtx == \A i \in DOMAIN text.lines : text.lines[i] # "etx"

outsideText == <<refreshVars, loadVars, cacheVars, registryVars,
                 initializeVars, gridVars, managerCall, level3Vars,
                 parseVars, siteVars, textProduct, locker, lookup,
                 lastEnables>>

CallOpenText ==
  /\ tried.step = "none"
  /\ \E lines \in Texts \cup TextsWithEtx, pos \in 0 .. MaxLines,
        strict \in BOOLEAN : OpenText(lines, pos, strict)
  /\ UNCHANGED outsideText
CallSkipBlankLines ==
  /\ NoEtx
  /\ Try("SkipBlankLines",
         [s |-> SkipBlankLines(text), found |-> TRUE, hVtec |-> FALSE])
  /\ UNCHANGED outsideText
CallTryParseEndOfProduct ==
  /\ Try("TryParseEndOfProduct", TryParseEndOfProduct(text))
  /\ UNCHANGED outsideText
CallTryParseMndHeader ==
  /\ NoEtx
  /\ Try("TryParseMndHeader", TryParseMndHeader(text))
  /\ UNCHANGED outsideText
CallTryParseSegmentHeader ==
  /\ NoEtx
  /\ Try("TryParseSegmentHeader", TryParseSegmentHeader(text))
  /\ UNCHANGED outsideText
CallTryParseVtecString ==
  /\ NoEtx
  /\ Try("TryParseVtecString", TryParseVtecString(text))
  /\ UNCHANGED outsideText

TextNext ==
  \/ CallOpenText
  \/ CallSkipBlankLines
  \/ CallTryParseEndOfProduct
  \/ CallTryParseMndHeader
  \/ CallTryParseSegmentHeader
  \/ CallTryParseVtecString

\* ------------------------------------------------ TextProductMessage::Parse
\* The lines of a segment's content are kept as their numbers in the stream,
\* 0 for the empty line util::getline yields at the end of the data.
RECURSIVE ContentLines(_, _)
ContentLines(s, productContent) ==
  IF s.eof THEN [s |-> s, productContent |-> productContent]
  ELSE LET p == Peek(s)
           g == Getline(p.s)
           line == IF g.s.pos > p.s.pos THEN g.s.pos ELSE 0
       IN  IF p.c = "ETX" THEN [s |-> p.s, productContent |-> productContent]
           ELSE IF g.line = "end"
             THEN [s |-> g.s, productContent |-> Append(productContent, line)]
           ELSE ContentLines(g.s, Append(productContent, line))

\* ParseProductContent: the empty lines at the back are popped.
RECURSIVE PopEmpty(_, _)
PopEmpty(lines, productContent) ==
  LET n == Len(productContent)
  IN  IF n > 0 /\ (productContent[n] = 0
                   \/ lines[productContent[n]] = "blank")
        THEN PopEmpty(lines, SubSeq(productContent, 1, n - 1))
        ELSE productContent

\* ParseProductContent reading nothing.
ParseProductContent_Unread(s) == [s |-> s, productContent |-> <<>>]

\* ParseProductContent: the lines up to ETX, the end of the data or a line
\* that starts with "$$", that line included.
ParseProductContent(s) ==
  LET c == ContentLines(s, <<>>)
  IN  [s |-> c.s, productContent |-> PopEmpty(s.lines, c.productContent)]

IdleProduct ==
  [pc |-> "idle", i |-> 0, dataValid |-> TRUE, mndHeader |-> <<>>,
   segments |-> <<>>, begin |-> 0, entry |-> 0]

ProductInit == textProduct = IdleProduct

\* The products of scenario S3 given to Parse: the lines by their kinds.
Products3 == {[k \in DOMAIN S3 |-> Kind(S3[k])],
              [k \in DOMAIN S3Ugc |-> Kind(S3Ugc[k])]}

\* TextProductMessage::Create(is) up to the loop of Parse: a new message,
\* and p->wmoHeader_->Parse(is) has read the first pos lines and answered
\* dataValid.
CreateTextProductMessage(lines, pos, strict, dataValid) ==
  /\ textProduct.pc = "idle"
  /\ pos <= Len(lines)
  /\ text' = [lines |-> lines, pos |-> pos, eof |-> FALSE, fail |-> FALSE,
              strict |-> strict]
  /\ textProduct' = [IdleProduct EXCEPT
       !.pc = "loop", !.dataValid = dataValid, !.begin = pos, !.entry = pos]

\* No segment header.
NoHeader(s) == [s |-> s, found |-> FALSE]

\* Parse: one turn of the loop over the segments. (Each local is bound by a
\* quantifier over the one value it has.)
ParseSegment ==
  /\ textProduct.pc = "loop"
  /\ textProduct.dataValid /\ ~text.eof
  /\ \E first \in {textProduct.i = 0} :
     \E e \in {IF ~first THEN TryParseEndOfProduct(text)
               ELSE NoHeader(text)} :
     \E p \in {Peek(e.s)} :
     \E h1 \in {IF first /\ p.c # "CR" THEN TryParseSegmentHeader(p.s)
                ELSE IF first THEN NoHeader(p.s)
                ELSE NoHeader(e.s)} :
     \E m \in {IF first THEN TryParseMndHeader(SkipBlankLines(h1.s))
               ELSE [s |-> h1.s, mndHeader |-> textProduct.mndHeader]} :
     \E s2 \in {IF first THEN SkipBlankLines(m.s) ELSE m.s} :
     \E t \in {TryParseSegmentHeader(s2)} :
     \E h2 \in {IF h1.found THEN h1 ELSE t} :
     \E s3 \in {IF h1.found THEN s2 ELSE SkipBlankLines(t.s)} :
     \E c \in {ParseProductContent(s3)} :
     \E segment \in {[header |->
                        [k \in DOMAIN h2 \ {"s", "hVtec"} |-> h2[k]],
                      productContent |-> c.productContent]} :
       IF e.found
         THEN /\ text' = e.s
              /\ textProduct' = [textProduct EXCEPT !.pc = "done",
                                            !.entry = text.pos]
         ELSE /\ text' = SkipBlankLines(c.s)
              /\ textProduct' = [textProduct EXCEPT
                   !.i = @ + 1,
                   !.entry = text.pos,
                   !.mndHeader = m.mndHeader,
                   !.segments =
                      IF h2.found \/ c.productContent # <<>>
                        THEN Append(@, segment) ELSE @]

\* Parse: the loop's condition is false and Parse returns dataValid.
ParseReturn ==
  /\ textProduct.pc = "loop"
  /\ ~(textProduct.dataValid /\ ~text.eof)
  /\ textProduct' = [textProduct EXCEPT !.pc = "done", !.entry = text.pos]
  /\ UNCHANGED text

outsideProduct == <<refreshVars, loadVars, cacheVars, registryVars,
                    initializeVars, gridVars, managerCall, level3Vars,
                    parseVars, tried, siteVars, locker, lookup, lastEnables>>

CallCreateTextProductMessage ==
  /\ textProduct.pc = "idle"
  /\ \E lines \in Texts \cup TextsWithEtx \cup Products3, pos \in 0 .. 1,
        strict \in BOOLEAN, dataValid \in BOOLEAN :
          CreateTextProductMessage(lines, pos, strict, dataValid)
  /\ UNCHANGED outsideProduct
CallParseSegment ==
  /\ ParseSegment
  /\ UNCHANGED outsideProduct
CallParseReturn ==
  /\ ParseReturn
  /\ UNCHANGED outsideProduct

ProductNext ==
  \/ CallCreateTextProductMessage
  \/ CallParseSegment
  \/ CallParseReturn

\* ------------------------------------------- Level-II loads of several sites
\* Instance() hands out one RadarProductManager for a radar site, and each
\* RadarProductManagerImpl has a loadLevel2DataMutex_ of its own.
SiteLoads == 1 .. MaxSiteLoads

SitesInit ==
  /\ siteLoad = [i \in SiteLoads |-> [pc |-> "idle", site |-> ""]]
  /\ loadLevel2DataMutex = [site \in RadarIds |-> 0]

\* The call is inside LoadNexradFile's lock: from std::unique_lock lock
\* {mutex} to lock.unlock().
Locked(i) == siteLoad[i].pc \in {"load", "store", "stored"}

\* LoadLevel2Data(time, request) on the manager of site: LoadProviderData
\* posts the LoadNexradFile task with that manager's loadLevel2DataMutex_.
SiteLoadLevel2Data(i, site) ==
  /\ siteLoad[i].pc \in {"idle", "done"}
  /\ siteLoad' = [siteLoad EXCEPT ![i] = [pc |-> "posted", site |-> site]]
  /\ UNCHANGED loadLevel2DataMutex

\* The task taking the mutex whoever holds it.
SiteLock_NoWait(i) ==
  /\ siteLoad[i].pc = "posted"
  /\ loadLevel2DataMutex' =
       [loadLevel2DataMutex EXCEPT ![siteLoad[i].site] = i]
  /\ siteLoad' = [siteLoad EXCEPT ![i].pc = "load"]

\* The task: std::unique_lock lock {mutex}
SiteLock(i) ==
  /\ siteLoad[i].pc = "posted"
  /\ loadLevel2DataMutex[siteLoad[i].site] = 0
  /\ loadLevel2DataMutex' =
       [loadLevel2DataMutex EXCEPT ![siteLoad[i].site] = i]
  /\ siteLoad' = [siteLoad EXCEPT ![i].pc = "load"]

\* The task: nexradFile = load()
SiteLoad(i) ==
  /\ siteLoad[i].pc = "load"
  /\ siteLoad' = [siteLoad EXCEPT ![i].pc = "store"]
  /\ UNCHANGED loadLevel2DataMutex

\* The task: the record is created and stored.
SiteStore(i) ==
  /\ siteLoad[i].pc = "store"
  /\ siteLoad' = [siteLoad EXCEPT ![i].pc = "stored"]
  /\ UNCHANGED loadLevel2DataMutex

\* The task: lock.unlock()
SiteUnlock(i) ==
  /\ siteLoad[i].pc = "stored"
  /\ loadLevel2DataMutex' =
       [loadLevel2DataMutex EXCEPT ![siteLoad[i].site] =
          IF @ = i THEN 0 ELSE @]
  /\ siteLoad' = [siteLoad EXCEPT ![i].pc = "unlocked"]

\* The task: emit request->RequestComplete(request)
SiteRequestComplete(i) ==
  /\ siteLoad[i].pc = "unlocked"
  /\ siteLoad' = [siteLoad EXCEPT ![i].pc = "done"]
  /\ UNCHANGED loadLevel2DataMutex

outsideSites == <<refreshVars, loadVars, cacheVars, registryVars,
                  initializeVars, gridVars, managerCall, level3Vars,
                  parseVars, textVars, textProduct, locker, lookup,
                  lastEnables>>

CallSiteLoadLevel2Data ==
  /\ \E i \in SiteLoads, site \in RadarIds : SiteLoadLevel2Data(i, site)
  /\ UNCHANGED outsideSites
PoolSiteLock ==
  /\ \E i \in SiteLoads : SiteLock(i)
  /\ UNCHANGED outsideSites
PoolSiteLoad ==
  /\ \E i \in SiteLoads : SiteLoad(i)
  /\ UNCHANGED outsideSites
PoolSiteStore ==
  /\ \E i \in SiteLoads : SiteStore(i)
  /\ UNCHANGED outsideSites
PoolSiteUnlock ==
  /\ \E i \in SiteLoads : SiteUnlock(i)
  /\ UNCHANGED outsideSites
PoolSiteRequestComplete ==
  /\ \E i \in SiteLoads : SiteRequestComplete(i)
  /\ UNCHANGED outsideSites

SitesNext ==
  \/ CallSiteLoadLevel2Data
  \/ PoolSiteLock
  \/ PoolSiteLoad
  \/ PoolSiteStore
  \/ PoolSiteUnlock
  \/ PoolSiteRequestComplete

\* ------------------------------------------- EnableRefresh(Level3) in order
\* The owner's calls of EnableRefresh(Level3, product, enabled), remembered
\* in the order they were made: the arguments of the last two. The product
\* is one the provider lists as available.
EnableOrderInit == lastEnables = <<>>

LastTwo(calls) == IF Len(calls) > 2 THEN Tail(calls) ELSE calls

outsideEnableOrder == <<cacheVars, registryVars, initializeVars, gridVars,
                        managerCall, fileIndex, parseVars, textVars,
                        siteVars, textProduct, locker, lookup>>

OwnerEnableRefreshLevel3 ==
  /\ \E enabled \in BOOLEAN :
       /\ EnableRefreshLevel3(enabled)
       /\ lastEnables' = LastTwo(Append(lastEnables, enabled))
  /\ UNCHANGED outsideEnableOrder

\* The availability check of a product the provider lists every time.
PoolFindListed ==
  /\ \E e \in BagToSet(enableTask) :
       \E list \in {l \in AvailableLists : EnableProduct \in l} :
         FindAvailable(e, list)
  /\ UNCHANGED outsideLevel3

EnableOrderNext ==
  \/ OwnerEnableRefreshLevel3
  \/ PoolFindListed
  \/ PoolEnableAvailable

\* --------------------------------------------------------- GetLevel3Data
\* std::chrono::system_clock::time_point {}
DefaultTime == 0
\* The times GetLevel3Data is called with, in ticks.
LookupTimes == {DefaultTime, 3}

\* What dereferencing rbegin() of an empty std::map can come to: the program
\* stops, or the read yields a null or a wild pointer.
Undefined == {"crash", "nullptr", "wild"}

NoLookup ==
  [product |-> "", record |-> NoRecord, read |-> "none", message |-> "none"]

LookupInit == lookup = NoLookup

\* util::GetBoundedElementValue(map, time): the value under the greatest key
\* not after time, nullptr when there is none.
GetBoundedElementValue(map, time) ==
  IF \E k \in DOMAIN map : k <= time
    THEN map[CHOOSE k \in DOMAIN map :
               k <= time /\ \A q \in DOMAIN map : q <= time => q <= k]
    ELSE NoRecord

\* it->second.rbegin()->second
Latest(map) == map[CHOOSE k \in DOMAIN map : \A q \in DOMAIN map : q <= k]

\* RadarProductManagerImpl::GetLevel3ProductRecord(product, time), under the
\* unique lock of level3ProductRecordMutex_: the record, and what was read of
\* the product's map ("empty": rbegin() of a map without elements, with
\* the outcome undefined).
GetLevel3ProductRecordOf(product, time, undefined) ==
  IF product \notin DOMAIN level3ProductRecordsMap
    THEN [record |-> NoRecord, read |-> "none", outcome |-> "nullptr"]
    ELSE LET map == level3ProductRecordsMap[product]
         IN IF time = DefaultTime
              THEN IF DOMAIN map = {}
                     THEN [record |-> NoRecord, read |-> "empty",
                           outcome |-> undefined]
                     ELSE [record |-> Latest(map), read |-> "rbegin",
                           outcome |-> "record"]
              ELSE LET record == GetBoundedElementValue(map, time)
                   IN [record |-> record, read |-> "bounded",
                       outcome |-> IF record = NoRecord THEN "nullptr"
                                   ELSE "record"]

\* RadarProductManager::GetLevel3Data(product, time)
GetLevel3Data(product, time, undefined) ==
  LET r == GetLevel3ProductRecordOf(product, time, undefined)
  IN lookup' =
       [product |-> product, record |-> r.record, read |-> r.read,
        message |-> CASE r.outcome = "record" -> "message"
                      [] r.outcome = "nullptr" -> "none"
                      [] OTHER -> r.outcome]

outsideLookup == <<refreshVars, loadVars, cacheVars, registryVars,
                   initializeVars, gridVars, managerCall, level3Vars,
                   parseVars, textVars, siteVars, textProduct, locker,
                   lastEnables>>

CallGetLevel3Data ==
  /\ \E product \in Products, time \in LookupTimes, undefined \in Undefined :
       GetLevel3Data(product, time, undefined)
  /\ UNCHANGED outsideLookup

LookupNext ==
  \/ CallGetLevel3ProviderManager
  \/ CallLoadLevel3Data
  \/ PoolAcquireLoadMutex
  \/ PoolLoadProviderData
  \/ PoolStoreLoaded
  \/ PoolReleaseLoadMutex
  \/ PoolRequestComplete
  \/ CallGetLevel3Data

\* ------------------------------------------------------------------- locks
\* The order in which the operations of the manager take its mutexes. A
\* mutex is named by its member and the manager it belongs to (0 for the
\* static ones); the refresh timer mutex and the record and load mutexes also
\* by the product group. The threads work on one manager: an operation takes
\* the same mutexes in the same order on every manager, and the static
\* mutexes are shared by all of them.
LockManagers == {1}
Groups == {"Level2", "Level3"}

instanceMutex == <<"instanceMutex_", 0, "">>
fileIndexMutex == <<"fileIndexMutex_", 0, "">>
fileLoadMutex == <<"fileLoadMutex_", 0, "">>
refreshTimerMutex(m, group) == <<"refreshTimerMutex_", m, group>>
productRecordMutex(m, group) == <<"productRecordMutex_", m, group>>
loadDataMutex(m, group) == <<"loadDataMutex_", m, group>>
level3ProviderManagerMutex(m) == <<"level3ProviderManagerMutex_", m, "">>
initializeMutexOf(m) == <<"initializeMutex_", m, "">>

\* The steps of an operation that matter to the locks: std::unique_lock or
\* std::lock_guard, std::shared_lock, the end of the lock's scope (or
\* unlock()), and a branch of the code.
UniqueLock(mutex) == [do |-> "lock", mutex |-> mutex, scripts |-> {}]
SharedLock(mutex) == [do |-> "lock_shared", mutex |-> mutex, scripts |-> {}]
EndOfScope(mutex) == [do |-> "unlock", mutex |-> mutex, scripts |-> {}]
Either(scripts) == [do |-> "either", mutex |-> <<>>, scripts |-> scripts]
Scoped(mutex) == <<UniqueLock(mutex), EndOfScope(mutex)>>

\* ProviderManager::Disable().
DisableLocks(m, group) == Scoped(refreshTimerMutex(m, group))

\* RefreshData up to util::async: the timer is cancelled under its mutex.
RefreshDataLocks(m, group) == Scoped(refreshTimerMutex(m, group))

\* The body RefreshData posts: the timer is armed under its mutex when
\* refresh is still enabled.
RefreshBodyLocks_LooksUp(m, group) ==
  <<UniqueLock(refreshTimerMutex(m, group)),
    UniqueLock(level3ProviderManagerMutex(m)),
    EndOfScope(level3ProviderManagerMutex(m)),
    EndOfScope(refreshTimerMutex(m, group))>>

RefreshBodyLocks(m, group) ==
  <<Either({<<>>, Scoped(refreshTimerMutex(m, group))})>>

\* The handler of the timer: RefreshData on success.
TimerHandlerLocks(m, group) == <<Either({<<>>, RefreshDataLocks(m, group)})>>

\* ~RadarProductManagerImpl: Disable() of the Level-II provider manager,
\* then of the Level-III provider managers in the map, under the shared lock
\* of the map.
DestructorLocks(m) ==
  DisableLocks(m, "Level2")
    \o <<SharedLock(level3ProviderManagerMutex(m)),
         Either({<<>>, DisableLocks(m, "Level3")}),
         EndOfScope(level3ProviderManagerMutex(m))>>

CleanupLocks == Scoped(fileIndexMutex) \o Scoped(instanceMutex)

InitializeLocks(m) == Scoped(initializeMutexOf(m))

GetLevel3ProviderManagerLocks(m) == Scoped(level3ProviderManagerMutex(m))

\* RadarProductManager::EnableRefresh on the caller's thread, and the task it
\* posts for a Level-III product.
EnableRefreshLocks(m, group) ==
  IF group = "Level2"
    THEN <<Either({<<>>, RefreshDataLocks(m, group)})>>
    ELSE GetLevel3ProviderManagerLocks(m)
EnableTaskLocks(m) == <<Either({<<>>, RefreshDataLocks(m, "Level3")})>>

\* LoadLevel3Data on the caller's thread: the early return leaves with the
\* shared lock's scope.
LoadLevel3DataLocks(m) ==
  <<SharedLock(level3ProviderManagerMutex(m)),
    EndOfScope(level3ProviderManagerMutex(m)),
    Either({<<>>, Scoped(productRecordMutex(m, "Level3"))})>>

\* LoadFile on the caller's thread, and the slot it connects to
\* RequestComplete.
LoadFileLocks == <<SharedLock(fileIndexMutex), EndOfScope(fileIndexMutex)>>
FileLoadedLocks == <<Either({<<>>, Scoped(fileIndexMutex)})>>

InstanceLocks == Scoped(instanceMutex)

GetLevel3ProductRecordLocks(m) == Scoped(productRecordMutex(m, "Level3"))

StoreRadarProductRecordLocks(m) ==
  <<Either({<<>>} \cup {Scoped(productRecordMutex(m, g)) : g \in Groups})>>

\* The load function LoadProviderData passes to LoadNexradFile.
LoadProviderLocks(m, group) ==
  <<SharedLock(productRecordMutex(m, group)),
    EndOfScope(productRecordMutex(m, group))>>

\* What the task of LoadNexradFile does with a valid file: the shared
\* pointer Instance() returned goes out of scope before lock.unlock(), and
\* the manager is destroyed there when no one else holds it.
StoreLoadedLocks(m) ==
  InstanceLocks \o InitializeLocks(m) \o StoreRadarProductRecordLocks(m)
    \o <<Either({<<>>, DestructorLocks(m)})>>

\* The task LoadNexradFile posts, up to lock.unlock().
LoadNexradFileLocks(mutex, load) ==
  <<UniqueLock(mutex)>> \o load
    \o <<Either({<<>>} \cup {StoreLoadedLocks(m) : m \in LockManagers}),
         EndOfScope(mutex)>>

\* The operations threads run, each as the locks it takes.
Operations ==
  {CleanupLocks, LoadFileLocks, FileLoadedLocks, InstanceLocks,
   LoadNexradFileLocks(fileLoadMutex, <<>>)}
    \cup UNION {{InitializeLocks(m), DestructorLocks(m),
                 GetLevel3ProviderManagerLocks(m), EnableTaskLocks(m),
                 LoadLevel3DataLocks(m), GetLevel3ProductRecordLocks(m),
                 StoreRadarProductRecordLocks(m)} : m \in LockManagers}
    \cup UNION {{DisableLocks(m, g), RefreshDataLocks(m, g),
                 RefreshBodyLocks(m, g), TimerHandlerLocks(m, g),
                 EnableRefreshLocks(m, g),
                 LoadNexradFileLocks(loadDataMutex(m, g),
                                     LoadProviderLocks(m, g))} :
                  m \in LockManagers, g \in Groups}

\* A thread inside an operation: the locks it holds and what it has left to
\* do.
Started(script) == [held |-> {}, todo |-> script]

LockInit == locker = EmptyBag

Lockers == BagToSet(locker)
Others(b) == BagToSet(locker (-) SetToBag({b}))
Holds(b, mutex, mode) == <<mutex, mode>> \in b.held
Wants(b) ==
  /\ b.todo # <<>>
  /\ Head(b.todo).do \in {"lock", "lock_shared"}

\* c keeps b from taking the mutex b is about to take. A thread that holds
\* the mutex itself also waits for ever: none of the mutexes is recursive.
Conflict(c, b) ==
  LET step == Head(b.todo)
  IN  \/ Holds(c, step.mutex, "unique")
      \/ step.do = "lock" /\ Holds(c, step.mutex, "shared")
Blocks(c, b) == Wants(b) /\ Conflict(c, b) /\ (c \in Others(b) \/ c = b)
Blocked(b) == \E c \in Lockers : Blocks(c, b)

After(b, held, todo) ==
  IF todo = <<>>
    THEN locker (-) SetToBag({b})
    ELSE (locker (-) SetToBag({b}))
           (+) SetToBag({[held |-> held, todo |-> todo]})

\* One step of thread b.
LockStep(b) ==
  LET step == Head(b.todo)
      rest == Tail(b.todo)
  IN  /\ b.todo # <<>>
      /\ CASE step.do = "lock" ->
                /\ ~Blocked(b)
                /\ locker' = After(b, b.held \cup {<<step.mutex, "unique">>},
                                   rest)
           [] step.do = "lock_shared" ->
                /\ ~Blocked(b)
                /\ locker' = After(b, b.held \cup {<<step.mutex, "shared">>},
                                   rest)
           [] step.do = "unlock" ->
                locker' = After(b, {h \in b.held : h[1] # step.mutex}, rest)
           [] step.do = "either" ->
                \E script \in step.scripts :
                  locker' = After(b, b.held, script \o rest)

outsideLocks == <<refreshVars, loadVars, cacheVars, registryVars,
                  initializeVars, gridVars, managerCall, level3Vars,
                  parseVars, textVars, siteVars, textProduct, lookup,
                  lastEnables>>

ThreadBegin ==
  /\ BagCardinality(locker) < MaxLockers
  /\ \E script \in Operations : locker' = locker (+) SetToBag({Started(script)})
  /\ UNCHANGED outsideLocks
ThreadLockStep ==
  /\ \E b \in Lockers : LockStep(b)
  /\ UNCHANGED outsideLocks

LocksNext ==
  \/ ThreadBegin
  \/ ThreadLockStep

Init ==
  /\ RefreshInit /\ LoadInit /\ CacheInit /\ RegistryInit /\ InitializeInit
  /\ ProviderManagersInit /\ Level3Init /\ ParseInit
  /\ TextInit /\ ProductInit /\ SitesInit /\ LockInit /\ LookupInit
  /\ EnableOrderInit

ParseSpec == Init /\ [][ParseNext]_vars

TextSpec == Init /\ [][TextNext]_vars

RefreshLiveSpec == Init /\ [][RefreshLiveNext]_vars /\ RefreshFairness

ProductSpec == Init /\ [][ProductNext]_vars

\* Parse runs on: the thread that called it keeps taking its steps. The
\* weak fairness of CallParseSegment is written out, with the condition of
\* the loop for ENABLED <<CallParseSegment>>_vars (a turn of the loop always
\* changes textProduct).
ProductLiveSpec ==
  /\ ProductSpec
  /\ WF_vars(CallParseReturn)
  /\ \/ []<>~(/\ textProduct.pc = "loop"
              /\ textProduct.dataValid /\ ~text.eof)
     \/ []<><<CallParseSegment>>_vars

SitesSpec == Init /\ [][SitesNext]_vars

LocksSpec == Init /\ [][LocksNext]_vars

EnableOrderSpec == Init /\ [][EnableOrderNext]_vars

LookupSpec == Init /\ [][LookupNext]_vars

ProviderManagersSpec == Init /\ [][ProviderManagersNext]_vars

Level3Spec == Init /\ [][Level3Next]_vars

InitializeSpec == Init /\ [][InitializeNext]_vars

RegistrySpec == Init /\ [][RegistryNext]_vars

CacheSpec == Init /\ [][CacheNext]_vars

RefreshSpec == Init /\ [][RefreshNext]_vars

LoadSpec == Init /\ [][LoadNext]_vars

FileNext ==
  \/ CallLoadFile
  \/ CallLoadData
  \/ PoolAcquireLoadMutex
  \/ PoolCreateNexradFile
  \/ PoolStoreLoaded
  \/ PoolReleaseLoadMutex
  \/ PoolRequestComplete

FileSpec == Init /\ [][FileNext]_vars

\* ------------------------------------------------------------------ claims

\* The step in which body b leaves position b.pc and becomes c.
Moves(b, c) == c.pc # b.pc /\ worker' = Step(b, c)

\* C1: at most one refresh body is in flight at any time.
C1_AtMostOneRefreshInFlight == InFlight <= 1

\* C2: Disable() clears refresh_enabled and cancels the timer, and until
\* refresh is enabled again no timer wait is armed and no RefreshData starts.
C2_DisableStopsRefresh ==
  /\ [][lastCalls' = <<"disable">> /\ lastCalls' # lastCalls
          => ~refreshEnabled' /\ ~timerArmed']_vars
  /\ [][disabledSince /\ disabledSince'
          => /\ timerArmed' => timerArmed
             /\ BagCardinality(worker') <= BagCardinality(worker)]_vars

\* C3: enable_refresh(true) followed immediately by enable_refresh(false)
\* leaves refresh_enabled false, no timer wait armed and no expiry that will
\* start another RefreshData.
C3_ToggleLeavesIdle ==
  lastCalls = <<"enableTrue", "enableFalse">>
    => ~refreshEnabled /\ ~timerArmed /\ readyOk = 0

\* C4: a step emits NewDataAvailable if and only if it is the return of
\* provider.Refresh() in a refresh body with new > 0.
C4_NewDataIffNewObjects ==
  [][(signal' = "NewDataAvailable")
       <=> \E b \in At("refresh"), c \in BagToSet(worker') :
             Moves(b, c) /\ c.new > 0]_vars

C4_Witness == signal = "NewDataAvailable" /\ ~refreshEnabled

C6_DisabledPermanently ==
  [][zeroDisabled /\ ~refreshEnabled => ~refreshEnabled']_vars

\* C6 as amended: once a body has disabled refresh for a zero total,
\* refresh_enabled becomes true again only by a call of enable_refresh(true).
C6_DisabledUntilEnabled ==
  [][zeroDisabled /\ ~refreshEnabled /\ refreshEnabled'
       => lastCalls' = <<"enableTrue">>]_vars

C6_Witness == zeroDisabled /\ ~refreshEnabled /\ InFlight > 0

\* C7: enable_refresh(true) on a provider that a (0, 0) refresh has disabled
\* sets refresh_enabled and posts a new refresh body.
C7_EnableReentersCycle ==
  [][zeroDisabled /\ ~refreshEnabled /\ lastCalls' = <<"enableTrue">>
       => /\ refreshEnabled'
          /\ worker' = worker (+) SetToBag({PostedWorker})]_vars

C7_Witness ==
  /\ zeroDisabled
  /\ refreshEnabled
  /\ lastCalls = <<"enableTrue">>
  /\ BagIn(PostedWorker, worker)

\* C8 as claimed: a body that arms the timer after a refresh with total > 0
\* arms it with max(update_period - (now - last_modified), 15 s).
C8_IntervalFromUpdatePeriod ==
  [][\A b \in At("arm") :
       worker' = Finish(b) /\ b.total > 0
         => /\ timerArmed'
            /\ timerInterval' = Max(b.period - b.elapsed, kRetryInterval)]_vars

\* C8 as amended: a body that reads refresh_enabled true at its check arms the
\* timer, with max(update_period - (now - last_modified), 15 s) when the
\* refresh found new objects and with 15 s when it found none.
C8_IntervalByNewObjects ==
  /\ [][\A b \in At("check") : worker' = Finish(b) => ~refreshEnabled]_vars
  /\ [][\A b \in At("arm") :
          worker' = Finish(b)
            => /\ timerArmed'
               /\ timerInterval' =
                    IF b.new > 0
                      THEN Max(b.period - b.elapsed, kRetryInterval)
                      ELSE kRetryInterval]_vars

C8_Witness ==
  /\ timerArmed
  /\ timerInterval > kRetryInterval
  /\ refreshEnabled

\* C9: for one (group, product) at most one task is inside the section of
\* LoadNexradFile that loads and stores under the load mutex.
C9_OneDecodePerProduct ==
  \A i, j \in Decoding :
    task[i].group = task[j].group /\ task[i].product = task[j].product
      => i = j

C9_Witness ==
  \E i, j \in Loads :
    /\ i # j
    /\ task[i].group = task[j].group
    /\ task[i].product = task[j].product
    /\ task[i].pc = "loaded"
    /\ task[j].pc = "posted"

\* C10: two load_level2(t) calls with the same t, the second made while the
\* first is running and both completing with a record, invoke
\* provider.load_object_by_key exactly once in total.
C10_OneLoadObjectByKey ==
  \A i, j \in Loads :
    /\ i \in task[j].with
    /\ task[i].group = "Level2" /\ task[j].group = "Level2"
    /\ task[i].time = task[j].time
    /\ task[i].pc = "done" /\ task[j].pc = "done"
    /\ task[i].record # NoRecord /\ task[j].record # NoRecord
    => task[i].called # task[j].called

\* The provider call of task i failed: LoadObjectByKey was called for an
\* object that exists and returned nullptr.
LoadFailed(i) ==
  task[i].called /\ task[i].file = NoFile /\ FindKey(task[i].time) # NoFile

\* Task i has passed StoreRadarProductRecord: its record is what its request
\* will carry.
Settled(i) == task[i].pc \in {"stored", "unlocked", "done"}

C12_SecondLoadFromCache ==
  \A i, j \in Loads :
    /\ i < j
    /\ task[i].group = "Level2" /\ task[j].group = "Level2"
    /\ task[i].time = task[j].time
    /\ task[i].pc = "done" /\ task[i].record # NoRecord
    /\ task[j].pc # "idle" /\ i \notin task[j].with
    => ~task[j].called

\* The whole second a time in ticks lies in.
SecondOf(t) == t - (t % TicksPerSecond)

\* The step in which task i runs StoreRadarProductRecord on a record.
Stores(i) ==
  task[i].pc = "loaded" /\ task'[i].pc = "stored" /\ task[i].file # NoFile

\* C13: StoreRadarProductRecord keys the cache of the record's group (and
\* product) by the record's time truncated to whole seconds: when the key is
\* present the caches stay as they are and the stored record is returned,
\* otherwise the record is inserted under the key and returned.
C13_StoreKeyedBySecond ==
  [][\A i \in Loads :
       Stores(i)
         => LET key == SecondOf(task[i].file)
                old == RecordMap(i)
            IN IF key \in DOMAIN old
                 THEN /\ task'[i].record = old[key]
                      /\ level2ProductRecords' = level2ProductRecords
                      /\ level3ProductRecordsMap' = level3ProductRecordsMap
                 ELSE /\ task'[i].record = [by |-> i, time |-> task[i].file]
                      /\ RecordMap(i)' = old @@ (key :> task'[i].record)
                      /\ IF task[i].group = "Level2"
                           THEN level3ProductRecordsMap' =
                                  level3ProductRecordsMap
                           ELSE /\ level2ProductRecords' = level2ProductRecords
                                /\ \A p \in DOMAIN level3ProductRecordsMap :
                                     p # task[i].product
                                       => level3ProductRecordsMap'[p] =
                                            level3ProductRecordsMap[p]]_vars

\* A store returned the record of another task, of another time in the same
\* second, and the map holds that record alone.
C13_Witness ==
  \E i \in Loads :
    /\ task[i].pc = "stored"
    /\ task[i].file # NoFile
    /\ task[i].record.by # i
    /\ task[i].record.time # task[i].file
    /\ RecordMap(i) = (SecondOf(task[i].file) :> task[i].record)

\* C14 as claimed: of two records of one group and product whose times differ
\* by less than one second only the first is stored, and the store of the
\* second returns the first.
C14_WithinOneSecond ==
  \A i, j \in Loads :
    /\ Settled(i) /\ Settled(j)
    /\ task[i].file # NoFile /\ task[j].file # NoFile
    /\ task[i].group = task[j].group /\ task[i].product = task[j].product
    /\ task[i].file - task[j].file < TicksPerSecond
    /\ task[j].file - task[i].file < TicksPerSecond
    => task[i].record = task[j].record

\* C14 as amended: of two records of one group and product whose times lie in
\* the same whole second only the first is stored, and the store of the
\* second returns the first.
C14_SameSecond ==
  \A i, j \in Loads :
    /\ Settled(i) /\ Settled(j)
    /\ task[i].file # NoFile /\ task[j].file # NoFile
    /\ task[i].group = task[j].group /\ task[i].product = task[j].product
    /\ SecondOf(task[i].file) = SecondOf(task[j].file)
    => /\ task[i].record = task[j].record
       /\ SecondOf(task[i].file) \in DOMAIN RecordMap(i)
       /\ RecordMap(i)[SecondOf(task[i].file)] = task[i].record

C14_Witness ==
  \E i, j \in Loads :
    /\ task[i].pc = "done" /\ task[j].pc = "done"
    /\ task[i].group = "Level2" /\ task[j].group = "Level2"
    /\ task[i].file = 2 /\ task[j].file = 3
    /\ task[i].record = task[j].record
    /\ Cardinality(DOMAIN level2ProductRecords) = 1

\* C15: a load call made with a request either has its task still running or
\* has published RequestComplete for the request, with the stored record when
\* a file was loaded and a null record when none was; no call ends without
\* publishing.
C15_EveryRequestCompleted ==
  \A i \in Loads :
    task[i].pc # "idle" /\ task[i].request
      => /\ i \in Running \/ task[i].pc = "done"
         /\ task[i].pc = "done" /\ task[i].file = NoFile
              /\ task[i].filename \notin DOMAIN fileIndex
              => task[i].record = NoRecord
         /\ task[i].pc = "done" /\ task[i].file # NoFile
              => /\ SecondOf(task[i].file) \in DOMAIN RecordMap(i)
                 /\ task[i].record = RecordMap(i)[SecondOf(task[i].file)]

\* The threads inside a read, and inside a write, of record map m.
Reading(m) ==
  {t \in Threads :
     access[t].map = m
       /\ access[t].op \in {"GetLevel2ProductRecord", "GetLevel3ProductRecord",
                            "LoadProviderData"}}
Writing(m) ==
  {t \in Threads :
     access[t].map = m
       /\ access[t].op \in {"StoreRadarProductRecord", "LoadLevel3Data"}}

\* C16: every read of a record map is made holding the map's reader-writer
\* lock, every write holding its writer side, so no read of a map is under
\* way while a write to the same map is.
C16_CacheAccessLocked ==
  \A m \in RecordMaps :
    /\ \A t \in Reading(m) :
         t \in recordMutex[m].readers \/ recordMutex[m].writer = t
    /\ \A t \in Writing(m) : recordMutex[m].writer = t
    /\ Reading(m) = {} \/ Writing(m) = {}

\* The callers between the guarded block of Instance() and its return that
\* created manager m.
AboutToEmit(m) ==
  {c \in Callers :
     caller[c].pc = "unguarded" /\ caller[c].instanceCreated
       /\ caller[c].instance = m}

\* C17: Instance(radar_id) returns the manager of the registry's entry, with
\* nothing constructed and nothing emitted, when that manager is live;
\* otherwise it constructs a manager, makes the entry point to it and emits
\* RadarProductManagerCreated once for that construction, whatever other
\* Instance calls run at the same time.
C17_InstanceFindsOrCreates ==
  /\ [](\A m \in 1 .. Len(managers) :
          managers[m].created + Cardinality(AboutToEmit(m)) = 1)
  /\ [][\A c \in Callers :
          caller[c].pc = "idle" /\ caller'[c].pc = "unguarded"
            => LET radarSite == caller'[c].radarSite
               IN IF radarSite \in DOMAIN instanceMap
                       /\ managers[instanceMap[radarSite]].owners > 0
                    THEN /\ caller'[c].instance = instanceMap[radarSite]
                         /\ ~caller'[c].instanceCreated
                         /\ Len(managers') = Len(managers)
                         /\ instanceMap' = instanceMap
                    ELSE /\ caller'[c].instance = Len(managers) + 1
                         /\ caller'[c].instanceCreated
                         /\ Len(managers') = Len(managers) + 1
                         /\ managers'[Len(managers')].radarSite = radarSite
                         /\ instanceMap'[radarSite] = Len(managers')]_vars
  /\ [][\A c \in Callers :
          caller[c].pc = "unguarded" /\ caller'[c].pc = "holding"
            => \A m \in 1 .. Len(managers) :
                 managers'[m].created =
                   managers[m].created
                     + (IF caller[c].instanceCreated /\ caller[c].instance = m
                          THEN 1 ELSE 0)]_vars

\* Two callers hold the same manager, one having created it and the other
\* having found it, after an earlier manager of the radar was destroyed.
C17_Witness ==
  \E c, e \in Callers :
    /\ c # e
    /\ caller[c].pc = "holding" /\ caller[e].pc = "holding"
    /\ caller[c].instance = caller[e].instance
    /\ caller[c].instanceCreated /\ ~caller[e].instanceCreated
    /\ managers[caller[c].instance].created = 1
    /\ caller[c].instance > 1
    /\ managers[1].radarSite = caller[c].radarSite
    /\ managers[1].owners = 0

C19_InitializeOnce ==
  /\ \A k \in DOMAIN coordinates0_5Degree : Len(coordinates0_5Degree[k]) <= 1
  /\ \A k \in DOMAIN coordinates1Degree : Len(coordinates1Degree[k]) <= 1
  /\ \A c \in Callers :
       initCall[c] = "returned"
         => /\ initialized
            /\ coordinates0_5Degree = Calculated(NUM_RADIAL_GATES_0_5_DEGREE)
            /\ coordinates1Degree = Calculated(NUM_RADIAL_GATES_1_DEGREE)

\* One call has returned and another holds the mutex and finds initialized_
\* set.
C19_Witness ==
  \E c, e \in Callers :
    /\ c # e
    /\ initCall[c] = "returned"
    /\ initCall[e] = "locked"
    /\ initialized

\* C20: the manager holds one Level-III ProviderManager per product: the
\* first GetLevel3ProviderManager(product) constructs it, it is never
\* replaced or removed, and every call for the product, later or concurrent,
\* returns it.
C20_OneProviderManagerPerProduct ==
  /\ [][\A p \in DOMAIN level3ProviderManagerMap :
          /\ p \in DOMAIN level3ProviderManagerMap'
          /\ level3ProviderManagerMap'[p] = level3ProviderManagerMap[p]]_vars
  /\ [](\A t \in Threads :
          managerCall[t].pc = "returned"
            => /\ managerCall[t].product \in DOMAIN level3ProviderManagerMap
               /\ managerCall[t].providerManager =
                    level3ProviderManagerMap[managerCall[t].product])
  /\ [](\A p, q \in DOMAIN level3ProviderManagerMap :
          level3ProviderManagerMap[p] = level3ProviderManagerMap[q] => p = q)

\* Two calls for one product have returned the same ProviderManager, the
\* second one constructed, and the other product has its own.
C20_Witness ==
  \E t, u \in Threads :
    /\ t # u
    /\ managerCall[t].pc = "returned" /\ managerCall[u].pc = "returned"
    /\ managerCall[t].product = managerCall[u].product
    /\ managerCall[t].providerManager = managerCall[u].providerManager
    /\ managerCall[t].providerManager = 2
    /\ DOMAIN level3ProviderManagerMap = Products

\* C21 as claimed: however often update_available_products() is called, its
\* tasks request the provider's list at most once and Level3ProductsChanged
\* is published at most once, by the task whose request succeeded.
C21_PublishedOnSuccess ==
  /\ [](requested <= 1 /\ changed <= 1)
  /\ [][changed' # changed
          => \E u \in BagToSet(updateTask) :
               /\ u.pc = "requested" /\ u.ok
               /\ updateTask' = updateTask (-) SetToBag({u})
               /\ changed' = changed + 1]_vars

\* C21 as amended: however often update_available_products() is called, the
\* first call alone posts a task; that task requests the provider's list
\* once and publishes Level3ProductsChanged once when the request has
\* returned, whether it succeeded or failed.
C21_SingleFlight ==
  /\ [](requested <= 1 /\ changed <= 1)
  /\ [](requested + BagCardinality(updateTask) + changed > 0
          => level3ProductsInitialized)
  /\ [](level3ProductsInitialized
          => changed + BagCardinality(updateTask) = 1)
  /\ [][changed' # changed
          => \E u \in BagToSet(updateTask) :
               /\ u.pc = "requested"
               /\ updateTask' = updateTask (-) SetToBag({u})
               /\ availableCategoryMap' = u.list
               /\ changed' = changed + 1]_vars

\* The one task has published after a request that failed.
C21_Witness ==
  /\ level3ProductsInitialized
  /\ requested = 1
  /\ changed = 1
  /\ updateTask = EmptyBag
  /\ availableCategoryMap = {}
  /\ kDefaultLevel3Product \in DOMAIN level3ProviderManagerMap

\* C22: the refresh flag of the Level-III provider manager of a product
\* changes only in the step of an EnableRefresh(Level3, product, enabled)
\* task that found the product in the provider's available products; it is
\* never set for a product that is not in the list.
C22_EnabledOnlyIfAvailable ==
  [][refreshEnabled' # refreshEnabled
       => \E e \in BagToSet(enableTask) :
            /\ e.pc = "enable"
            /\ EnableProduct \in e.list
            /\ e.enabled = refreshEnabled'
            /\ enableTask' = enableTask (-) SetToBag({e})]_vars

\* A task that found the product in the list has enabled refresh and posted
\* the refresh body, and no task is left.
C22_Witness ==
  /\ refreshEnabled
  /\ enableTask = EmptyBag
  /\ BagCardinality(worker) = 1
  /\ EnableProduct \in DOMAIN level3ProviderManagerMap

\* The message in the stream is one Parse refuses: its block count is outside
\* 4 .. 10 or it is compressed.
Refused ==
  \/ message.dataBlockCount < 4
  \/ message.dataBlockCount > 10
  \/ message.compressionIndicator # 0

\* C23: Parse returns true only for a message with 4 <= data block count <= 10
\* and compression indicator 0. For any other message Parse returns false,
\* dataBlockCount_ is 0 from the checks on, no byte of the pointer array is
\* read (the stream stays behind the 32 header bytes until the final seek to
\* isBegin) and no data block is decoded.
C23_ValidOnlyInRange ==
  /\ parse.pc = "done" /\ parse.messageValid => ~Refused
  /\ parse.pc \in {"pointers", "blocks", "done"} /\ Refused =>
       /\ ~parse.messageValid
       /\ parse.dataBlockCount = 0
       /\ parse.pointerBytes = 0
       /\ parse.dataBlockPointer = <<>>
       /\ parse.blocks = <<>>
       /\ stream.pos = IF parse.pc = "done" THEN 0 ELSE 32

\* Parse has returned false for a compressed message of ten data blocks, with
\* the count cleared and nothing read behind the header.
C23_Witness ==
  /\ parse.pc = "done"
  /\ message.compressionIndicator = 1
  /\ message.dataBlockCount = 10
  /\ parse.dataBlockCount = 0
  /\ ~parse.messageValid
  /\ parse.blocks = <<>>

\* The moment data blocks Parse has decoded.
MomentBlocks ==
  {i \in DOMAIN parse.blocks : parse.blocks[i].dataName \in MomentNames}

\* C24: for a moment data block of n gates, 0 <= n <= 1840, Create asks the
\* stream for n * word size / 8 bytes of gates when the word size is 8 or 16
\* and for none when it is anything else; on a stream that holds the block,
\* the fixed header ends 28 bytes behind the block's start and the stream
\* ends up exactly that many bytes behind the header.
C24_GateBytesRead ==
  \A i \in MomentBlocks :
    LET r == parse.blocks[i]
        n == r.numberOfDataMomentGates
        w == r.dataWordSize
        bytes == IF w \in {8, 16} THEN (n * w) \div 8 ELSE 0
    IN  n \in 0 .. 1840 =>
          /\ r.gateBytes = bytes
          /\ ~r.failed =>
               /\ n = DataBlockAt(message, r.pointer).numberOfDataMomentGates
               /\ w = DataBlockAt(message, r.pointer).dataWordSize
               /\ r.headerEnd = r.from + 28
               /\ r.to = r.headerEnd + bytes

\* A moment block of 1840 gates of 16 bits has been decoded from a stream
\* holding all of it: 3680 bytes behind the 28 of the header.
C24_Witness ==
  \E i \in MomentBlocks :
    /\ parse.blocks[i].numberOfDataMomentGates = 1840
    /\ parse.blocks[i].dataWordSize = 16
    /\ ~parse.blocks[i].failed
    /\ parse.blocks[i].to = parse.blocks[i].from + 28 + 3680

\* C25 as claimed: a message with a data block pointer at or behind its
\* declared size makes Parse return false, and no block's bytes are read
\* from a position at or behind the declared size.
C25_PointerInsideMessage ==
  /\ (/\ parse.pc = "done"
      /\ ~Refused
      /\ \E b \in DOMAIN message.dataBlockPointer :
           message.dataBlockPointer[b] >= message.messageSize)
       => ~parse.messageValid
  /\ \A i \in DOMAIN parse.blocks :
       parse.blocks[i].to > parse.blocks[i].from
         => parse.blocks[i].from < message.messageSize

TrySteps == {"TryParseSegmentHeader", "TryParseMndHeader",
             "TryParseVtecString", "TryParseEndOfProduct"}

\* C26 as claimed: a try-parse step that has not found its construct leaves
\* the stream at the line it was entered at, and TryParseVtecString having
\* found a P-VTEC line with no H-VTEC line behind it leaves the stream one
\* line behind its entry.
C26_RewoundOnFailure ==
  /\ tried.step \in TrySteps /\ ~tried.found => text.pos = tried.entry
  /\ tried.step = "TryParseVtecString" /\ tried.found /\ ~tried.hVtec
       => text.pos = tried.entry + 1

\* C27: in each grid an element is written by no work item but
\* radial_gate = index div 2 and by that one once; when the grid's for_each
\* has returned every index 0 .. radials * gates * 2 - 1 has been written
\* exactly once, in whatever order the work items ran. The half degree array
\* has 2 * MAX_0_5_DEGREE_RADIALS * MAX_DATA_MOMENT_GATES elements.
C27_EachIndexWrittenOnce ==
  LET half == 2 * Max0_5DegreeRadials * MaxDataMomentGates
      one == 2 * Max1DegreeRadials * MaxDataMomentGates
  IN  /\ \A k \in DOMAIN coordinates0_5Degree :
           coordinates0_5Degree[k] \in {<<>>, <<k \div 2>>}
      /\ \A k \in DOMAIN coordinates1Degree :
           coordinates1Degree[k] \in {<<>>, <<k \div 2>>}
      /\ DOMAIN coordinates0_5Degree \in {{}, 0 .. (half - 1)}
      /\ DOMAIN coordinates1Degree \in {{}, 0 .. (one - 1)}
      /\ initialized \/ (\E c \in Callers : initCall[c] = "one")
           => \A k \in 0 .. (half - 1) :
                /\ k \in DOMAIN coordinates0_5Degree
                /\ coordinates0_5Degree[k] = <<k \div 2>>
      /\ initialized
           => \A k \in 0 .. (one - 1) :
                /\ k \in DOMAIN coordinates1Degree
                /\ coordinates1Degree[k] = <<k \div 2>>

\* The half degree grid is complete and the work items of the one degree
\* grid run out of order: the last one has written its two elements and the
\* first one has not run.
C27_Witness ==
  LET last == Max1DegreeRadials * MaxDataMomentGates - 1
  IN  /\ \E c \in Callers : initCall[c] = "one"
      /\ 0 \in remaining
      /\ last > 0
      /\ coordinates1Degree[2 * last] = <<last>>
      /\ coordinates1Degree[2 * last + 1] = <<last>>
      /\ coordinates1Degree[0] = <<>>
      /\ \A k \in DOMAIN coordinates0_5Degree :
           coordinates0_5Degree[k] = <<k \div 2>>

\* The provider manager's own state: the flag, the timer, the handlers
\* queued and the refresh bodies.
ProviderState ==
  <<refreshEnabled, timerArmed, timerInterval, readyOk, readyAborted, worker>>

\* C28: EnableRefresh(true) on a provider whose refreshEnabled_ is false sets
\* the flag and issues exactly one RefreshData: one refresh body is posted;
\* EnableRefresh(false) on such a provider, and EnableRefresh(true) on a
\* provider whose flag is true, issue none and change nothing of the
\* provider's state.
C28_EnableFromIdle ==
  /\ [][lastCalls' = <<"enableTrue">> /\ ~refreshEnabled
          => /\ refreshEnabled'
             /\ worker' = worker (+) SetToBag({PostedWorker})
             /\ BagCardinality(worker') = BagCardinality(worker) + 1
             /\ ~timerArmed'
             /\ readyOk' = readyOk]_vars
  /\ [][lastCalls' = <<"enableTrue">> /\ refreshEnabled
          => ProviderState' = ProviderState]_vars
  /\ [][(/\ lastCalls' # lastCalls
         /\ lastCalls' \in {<<"enableFalse">>, <<"enableTrue", "enableFalse">>}
         /\ ~refreshEnabled)
          => ProviderState' = ProviderState]_vars

\* EnableRefresh(true) has just been called on the provider in its initial
\* state: the flag is set and the one body it posted is all there is.
C28_Witness ==
  /\ lastCalls = <<"enableTrue">>
  /\ refreshEnabled
  /\ worker = SetToBag({PostedWorker})
  /\ ~timerArmed /\ readyOk = 0 /\ readyAborted = 0
  /\ ~zeroDisabled /\ ~disabledSince

\* C29: a refresh body is posted only by EnableRefresh(true) on a provider
\* whose flag is false or by a handler of a timer wait that completed with
\* success, one body for the one handler; a handler of a wait that did not
\* complete with success posts none and changes nothing else; and a wait
\* completes into exactly one handler, so one armed wait yields at most one
\* refresh.
C29_RefreshOnlyOnExpiry ==
  /\ [][BagCardinality(worker') > BagCardinality(worker)
          => /\ worker' = worker (+) SetToBag({PostedWorker})
             /\ \/ lastCalls' = <<"enableTrue">> /\ ~refreshEnabled
                   /\ readyOk' = readyOk
                \/ lastCalls' # <<"enableTrue">> /\ readyOk' = readyOk - 1]_vars
  /\ [][readyAborted' < readyAborted
          => /\ readyAborted' = readyAborted - 1
             /\ <<refreshEnabled, timerArmed, timerInterval, readyOk, worker>>'
                  = <<refreshEnabled, timerArmed, timerInterval, readyOk,
                      worker>>]_vars
  /\ [][readyOk' > readyOk
          => /\ timerArmed /\ ~timerArmed'
             /\ readyOk' = readyOk + 1
             /\ readyAborted' = readyAborted]_vars
  /\ [][readyOk' < readyOk => readyOk' = readyOk - 1]_vars
  /\ [][timerArmed /\ readyOk' + readyAborted' > readyOk + readyAborted
          => readyOk' + readyAborted' = readyOk + readyAborted + 1]_vars
  /\ [](readyOk >= 0 /\ readyAborted >= 0)

\* The provider is enabled, the last step was no call of its owner and a
\* refresh body stands posted, with no wait armed and no handler queued.
C29_Witness ==
  /\ refreshEnabled
  /\ lastCalls = <<>>
  /\ worker = SetToBag({PostedWorker})
  /\ ~timerArmed /\ readyOk = 0 /\ readyAborted = 0
  /\ ~zeroDisabled /\ ~disabledSince

\* C30 as claimed: two LoadLevel2Data calls on the managers of two different
\* radar sites are never inside their decode sections at the same time.
C30_SerializedAcrossSites ==
  \A i, j \in SiteLoads :
    i # j /\ Locked(i) /\ Locked(j) => siteLoad[i].site = siteLoad[j].site

\* C30 as amended: Level-II decodes are serialized for each manager: two
\* LoadLevel2Data calls on the manager of one radar site are never inside
\* their decode sections at the same time, and the call inside the section
\* of a site's manager is the one holding that manager's mutex. Calls on
\* the managers of two different sites can be inside at the same time.
C30_SerializedPerManager ==
  /\ \A i, j \in SiteLoads :
       i # j /\ Locked(i) /\ Locked(j) => siteLoad[i].site # siteLoad[j].site
  /\ \A i \in SiteLoads :
       Locked(i) => /\ siteLoad[i].site \in DOMAIN loadLevel2DataMutex
                    /\ loadLevel2DataMutex[siteLoad[i].site] = i
  /\ \A site \in DOMAIN loadLevel2DataMutex :
       loadLevel2DataMutex[site] # 0
         => /\ loadLevel2DataMutex[site] \in SiteLoads
            /\ Locked(loadLevel2DataMutex[site])
            /\ siteLoad[loadLevel2DataMutex[site]].site = site

\* The calls on the managers of KLSX and KTLX are both loading their file,
\* and a second call on the manager of KLSX waits for its mutex.
C30_Witness ==
  \E i, j, k \in SiteLoads :
    /\ siteLoad[i] = [pc |-> "load", site |-> "KLSX"]
    /\ siteLoad[j] = [pc |-> "load", site |-> "KTLX"]
    /\ siteLoad[k] = [pc |-> "posted", site |-> "KLSX"]
    /\ loadLevel2DataMutex = [site \in RadarIds |->
                                IF site = "KLSX" THEN i ELSE j]

\* C31: when Parse has returned true with every read served by the stream,
\* the slots populated are those of the names of strToDataBlock_ that stand
\* at the blocks the pointers lead to, no more and no fewer; every pointer
\* has had its block decoded, those behind a block of unknown name included,
\* and a block of unknown name has populated no slot.
C31_SlotsMatchNames ==
  (parse.pc = "done" /\ parse.messageValid /\ ~stream.fail) =>
     LET addressed ==
           {DataBlockAt(message, message.dataBlockPointer[b]).dataName :
              b \in DOMAIN message.dataBlockPointer}
     IN  /\ parse.slots = addressed \cap strToDataBlock
         /\ Len(parse.blocks) = message.dataBlockCount
         /\ \A b \in DOMAIN parse.blocks :
              parse.blocks[b].dataName =
                DataBlockAt(message, message.dataBlockPointer[b]).dataName

\* Parse has returned true for a message whose second pointer leads to a
\* block of unknown name and whose other pointers lead to a Volume block:
\* the Volume slot alone is populated, by blocks before and behind it.
C31_Witness ==
  /\ parse.pc = "done" /\ parse.messageValid /\ ~stream.fail
  /\ message.dataBlockCount = 4
  /\ parse.blocks[2].dataName = "XXX"
  /\ parse.blocks[1].dataName = "VOL"
  /\ parse.blocks[4].dataName = "VOL"
  /\ parse.slots = {"VOL"}

\* Parse has returned for the product lines, given behind its WMO header.
Parsed(lines) ==
  /\ textProduct.pc = "done"
  /\ textProduct.dataValid
  /\ textProduct.begin = 1
  /\ text.lines = [k \in DOMAIN lines |-> Kind(lines[k])]

\* C32 as claimed: on the product of S3 the parser yields exactly one
\* segment, with a UGC string, one P-VTEC, an issuance date/time line and
\* the one line BODY, the fifth of the stream, as its content.
C32_SegmentOfS3 ==
  Parsed(S3) =>
    /\ Len(textProduct.segments) = 1
    /\ textProduct.segments[1].header.found
    /\ Len(textProduct.segments[1].header.vtecString) = 1
    /\ textProduct.segments[1].header.issuanceDateTime
    /\ textProduct.segments[1].productContent = <<5>>

C33_RefreshRecurs ==
  <>[]refreshEnabled =>
    /\ []<><<PoolArmTimer>>_vars
    /\ []<><<IoHandlerSuccess>>_vars
    /\ []<><<PoolStart>>_vars

\* Refresh is enabled, no body runs, and the wait a body armed has completed
\* with success: its handler is queued on the io_context.
C33_Witness ==
  /\ refreshEnabled
  /\ worker = EmptyBag
  /\ readyOk = 1
  /\ ~timerArmed

\* The threads b waits for, and those at the end of a chain of n further
\* waits.
WaitsFor(b) == {c \in Lockers : Blocks(c, b)}
RECURSIVE Reached(_, _)
Reached(set, n) ==
  IF n = 0
    THEN set
    ELSE Reached(set \cup UNION {WaitsFor(c) : c \in set}, n - 1)
InCycle(b) == b \in Reached(WaitsFor(b), BagCardinality(locker))

\* C34: the mutexes are never taken in a cyclic order: in no reachable state
\* does a thread wait for a mutex held by a thread that waits, directly or
\* through further threads, for a mutex the first one holds (or for the first
\* one's own mutex); so among the threads inside an operation there is always
\* one that can take its next step.
C34_NoLockCycle ==
  /\ \A b \in Lockers : ~InCycle(b)
  /\ Lockers # {} => \E b \in Lockers : ~Blocked(b)

\* A thread that holds a load mutex and the shared lock of the provider
\* manager map waits for a refresh timer mutex another thread holds.
C34_Witness ==
  \E b \in Lockers :
    \E c \in Others(b) :
      /\ Blocks(c, b)
      /\ Cardinality(b.held) = 2
      /\ Head(b.todo).mutex[1] = "refreshTimerMutex_"

\* C35 as claimed, for one provider manager of the destroyed manager: once
\* the destructor has called Disable() and the owner makes no further call,
\* no timer callback calls RefreshData and no refresh body is posted, whatever
\* body was in flight when Disable() ran.
C35_NothingStartsAfterDisable ==
  [][(/\ lastCalls = <<"disable">>
      /\ lastCalls' = <<"disable">>)
       => /\ readyOk' >= readyOk
          /\ BagCardinality(worker') <= BagCardinality(worker)]_vars

\* C36 as claimed: GetLevel3Data with a default-initialized time never reads
\* the last element of a record map without elements, and what it returns is
\* the message of a record of the product or no message.
C36_NeverReadsEmptyMap ==
  /\ lookup.read # "empty"
  /\ lookup.message \in {"none", "message"}

\* C37 as claimed: when the owner's last two calls were
\* EnableRefresh(Level3, product, true) and then
\* EnableRefresh(Level3, product, false), and the availability checks they
\* posted have run, refresh is disabled.
C37_LastCallWins ==
  (/\ lastEnables = <<TRUE, FALSE>>
   /\ enableTask = EmptyBag)
    => ~refreshEnabled

\* The managers Instance() handed out that still have an owner.
Live == {i \in 1 .. Len(managers) : managers[i].owners > 0}

\* C38 as claimed: no two live managers handed out by Instance() are for the
\* same radar id, whatever Instance() calls, released pointers and Cleanup()
\* calls came before.
C38_OneLiveManagerPerRadar ==
  \A i, j \in Live : managers[i].radarSite = managers[j].radarSite => i = j

\* Every key of map before is a key of map after, with the same record.
Keeps(before, after) ==
  \A key \in DOMAIN before :
    key \in DOMAIN after /\ after[key] = before[key]

\* C39: the record caches only grow and the first record stored under a key
\* stays: no step removes a time key of level2ProductRecords_ or of a
\* product's map in level3ProductRecordsMap_, removes a product's map, or
\* replaces the record stored under a key.
C39_GrowOnly ==
  [][/\ Keeps(level2ProductRecords, level2ProductRecords')
     /\ \A product \in DOMAIN level3ProductRecordsMap :
          /\ product \in DOMAIN level3ProductRecordsMap'
          /\ Keeps(level3ProductRecordsMap[product],
                   level3ProductRecordsMap'[product])]_vars

\* A task has stored a file whose second already held the record of another
\* task's file, and was given that record.
C39_Witness ==
  \E i \in Loads :
    /\ task[i].pc = "stored"
    /\ task[i].record # NoRecord
    /\ task[i].record.by # i
    /\ task[i].record.time # task[i].file

====
